---- MODULE Spec2Model ----
(***************************************************************************)
(* Peeps: the client store (zustand useStore), its REST calls, the express *)
(* routes of the server and the socket.io broadcast, as one state machine. *)
(* Every client handler (a store action up to its await, the continuation  *)
(* after the await, a socket callback) is one atomic step, as on the       *)
(* browser's event loop; the server answers one request per step.          *)
(***************************************************************************)
EXTENDS Integers, Sequences, FiniteSets, TLC

\* ------------------------------------------------------------- bounds
\* user actions (store calls made from the UI) over all clients
MaxOps == 2
\* requests that end in a 500 (db.execute throws) or are lost by the network
MaxFaults == 2
\* connections lost by the sockets, over all clients
MaxDrops == 1

\* ---------------------------------------------------------- constants
Clients == {1, 2}
\* null of selectedPersonId / selectedLinkId
NoId == 0
\* null of error
NoError == "null"

\* rows of the database when the first client starts (ids are uuids in the
\* code; createdAt/updatedAt are ISO strings, here the logical time)
InitialPeople ==
    << [id |-> 1, name |-> "Alice", stream |-> "ML", interests |-> << "nlp", "vision" >>,
        createdAt |-> 1, updatedAt |-> 1],
       [id |-> 2, name |-> "Bob", stream |-> "ml", interests |-> << "nlp" >>,
        createdAt |-> 2, updatedAt |-> 2] >>
InitialLinks ==
    << [id |-> 3, sourceId |-> 1, targetId |-> 2, description |-> "works with",
        createdAt |-> 3, updatedAt |-> 3] >>
InitialClock == Len(InitialPeople) + Len(InitialLinks)

\* what loadFromStorage() found in localStorage: client 2 holds a stale copy
\* of a person
CachedPeople(c) ==
    IF c = 2
    THEN << [id |-> 1, name |-> "Al", stream |-> "ML", interests |-> << "nlp" >>,
             createdAt |-> 1, updatedAt |-> 0] >>
    ELSE << >>
CachedLinks(c) == << >>

\* the personData / updates / linkData the forms hand to the store
NewPersonData == [name |-> "Carol", stream |-> "ML", interests |-> << "vision" >>]
PersonUpdates == { [name |-> "Bo"], [stream |-> "nlp"] }
LinkUpdates == { [description |-> "mentors"] }
NewLinkDescription == "knows"

VARIABLES
    clock,              \* logical time: Date.now(), also the source of uuidv4()
    faults,             \* requests failed by the server or the network so far
    dbPeople,           \* table people, in rowid order
    dbLinks,            \* table links, in rowid order
    store,              \* per client: the zustand state
    pendingOperations,  \* per client: the module-level Set of markers
    socket,             \* per client: the module-level socket of lib/socket.ts
    queue,              \* per client: events emitted to its socket, not yet delivered
    calls,              \* REST calls of the store actions, in flight
    fetch,              \* per client: the fetchAllData() of initializeStore
    drops,              \* per client: how often its socket lost the connection
    attempts,           \* per client: reconnection attempts of its socket that failed
    canvas,             \* the render of the canvas and of the details panel
    gate,               \* per client: the confirm dialog of the store
    autosave,           \* per client: viewport, saveTimeout and localStorage
    mounted,            \* per client: the App component is mounted
    last                \* the handler that ran in the last step

vars == << clock, faults, dbPeople, dbLinks, store, pendingOperations, socket,
           queue, calls, fetch, drops, attempts, canvas, gate, autosave, mounted,
           last >>

\* what the handlers of the graph leave alone
aux == << attempts, canvas, gate, autosave, mounted >>

\* ------------------------------------------------------------ helpers
Ids(s) == { s[i].id : i \in DOMAIN s }
Has(s, id) == \E i \in DOMAIN s : s[i].id = id
\* Array.prototype.find
Find(s, id) == s[CHOOSE i \in DOMAIN s : s[i].id = id /\ \A j \in DOMAIN s : s[j].id = id => i <= j]
\* Array.prototype.filter on id
Without(s, id) == SelectSeq(s, LAMBDA r : r.id # id)
\* links.filter(l => l.sourceId !== id && l.targetId !== id)
WithoutEndpoint(s, id) == SelectSeq(s, LAMBDA l : l.sourceId # id /\ l.targetId # id)
\* links.filter(l => l.sourceId === id || l.targetId === id)
WithEndpoint(s, id) == SelectSeq(s, LAMBDA l : l.sourceId = id \/ l.targetId = id)
\* Array.prototype.map replacing by id
Replace(s, id, r) == [i \in DOMAIN s |-> IF s[i].id = id THEN r ELSE s[i]]
Range(s) == { s[i] : i \in DOMAIN s }

Marker(kind, op, id) == << kind, op, id >>


\* ORDER BY created_at DESC
RECURSIVE SortDesc(_)
SortDesc(s) ==
    IF s = << >> THEN << >>
    ELSE LET m == CHOOSE i \in DOMAIN s :
                      \A j \in DOMAIN s :
                          \/ s[j].createdAt < s[i].createdAt
                          \/ (s[j].createdAt = s[i].createdAt /\ i <= j)
             rest == [i \in 1..(Len(s) - 1) |-> IF i < m THEN s[i] ELSE s[i + 1]]
         IN << s[m] >> \o SortDesc(rest)

\* ------------------------------------------- the store's state changes
\* _addPersonFromSocket .. _deleteLinkFromSocket: the argument of set()
AddPersonFromSocket(st, person) ==
    IF Has(st.people, person.id) THEN st
    ELSE [st EXCEPT !.people = Append(@, person)]

\* a faulty handler that merges: the name of the old record survives
UpdatePersonFromSocketMerges(st, person) ==
    LET old == st.people
    IN [st EXCEPT !.people =
           [i \in DOMAIN old |->
               IF old[i].id = person.id
               THEN [person EXCEPT !.name = old[i].name]
               ELSE old[i]]]

UpdatePersonFromSocket(st, person) ==
    [st EXCEPT !.people = Replace(@, person.id, person)]

\* a faulty handler that leaves the links of the deleted person in place
DeletePersonFromSocketKeepsLinks(st, id) ==
    [st EXCEPT !.people = Without(@, id),
               !.selectedPersonId = IF @ = id THEN NoId ELSE @]

DeletePersonFromSocket(st, id) ==
    [st EXCEPT !.people = Without(@, id),
               !.links = WithoutEndpoint(@, id),
               !.selectedPersonId = IF @ = id THEN NoId ELSE @]

AddLinkFromSocket(st, link) ==
    IF Has(st.links, link.id) THEN st
    ELSE [st EXCEPT !.links = Append(@, link)]

UpdateLinkFromSocket(st, link) ==
    [st EXCEPT !.links = Replace(@, link.id, link)]

DeleteLinkFromSocket(st, id) ==
    [st EXCEPT !.links = Without(@, id),
               !.selectedLinkId = IF @ = id THEN NoId ELSE @]

\* {...existing, ...updates, updatedAt: new Date().toISOString()}
Merge(existing, updates, now) ==
    [f \in DOMAIN existing |->
        IF f = "updatedAt" THEN now
        ELSE IF f \in DOMAIN updates THEN updates[f]
        ELSE existing[f]]

\* a faulty addPerson whose set() has not run when the request is issued
AddPersonAppliesLater(st, person) == st

\* the optimistic set() of each store action
AddPersonApply(st, person) == [st EXCEPT !.people = Append(@, person)]

UpdatePersonApply(st, id, updatedPerson) ==
    [st EXCEPT !.people = Replace(@, id, updatedPerson)]

\* a faulty deletePerson that leaves the links of the person in place
DeletePersonKeepsLinks(st, id) ==
    [st EXCEPT !.people = Without(@, id),
               !.selectedPersonId = IF @ = id THEN NoId ELSE @]

DeletePersonApply(st, id) ==
    [st EXCEPT !.people = Without(@, id),
               !.links = WithoutEndpoint(@, id),
               !.selectedPersonId = IF @ = id THEN NoId ELSE @]

AddLinkApply(st, link) == [st EXCEPT !.links = Append(@, link)]

UpdateLinkApply(st, id, updatedLink) ==
    [st EXCEPT !.links = Replace(@, id, updatedLink)]

DeleteLinkApply(st, id) ==
    [st EXCEPT !.links = Without(@, id),
               !.selectedLinkId = IF @ = id THEN NoId ELSE @]

\* faulty catch blocks: they set error and restore nothing, or only a part
AddPersonCatchKeepsRecord(st, id) ==
    [st EXCEPT !.error = "Failed to save person"]

UpdatePersonCatchKeepsUpdate(st, id, existingPerson) ==
    [st EXCEPT !.error = "Failed to update person"]

DeletePersonCatchDropsLinks(st, existingPerson, existingLinks) ==
    [st EXCEPT !.people = Append(@, existingPerson),
               !.error = "Failed to delete person"]

\* the set() in the catch block of each store action
AddPersonCatch(st, id) ==
    [st EXCEPT !.people = Without(@, id), !.error = "Failed to save person"]

UpdatePersonCatch(st, id, existingPerson) ==
    [st EXCEPT !.people = Replace(@, id, existingPerson),
               !.error = "Failed to update person"]

DeletePersonCatch(st, existingPerson, existingLinks) ==
    [st EXCEPT !.people = Append(@, existingPerson),
               !.links = @ \o existingLinks,
               !.error = "Failed to delete person"]

AddLinkCatch(st, id) ==
    [st EXCEPT !.links = Without(@, id), !.error = "Failed to save link"]

UpdateLinkCatch(st, id, existingLink) ==
    [st EXCEPT !.links = Replace(@, id, existingLink),
               !.error = "Failed to update link"]

DeleteLinkCatch(st, existingLink) ==
    [st EXCEPT !.links = Append(@, existingLink),
               !.error = "Failed to delete link"]

\* pendingOperations.add(...) of a store action: its own marker and, for
\* deletePerson, one link:delete marker per captured link
CallMarkers(kind, op, id, existingLinks) ==
    { Marker(kind, op, id) } \cup
    ( IF kind = "person" /\ op = "delete"
      THEN { Marker("link", "delete", l.id) : l \in Range(existingLinks) }
      ELSE { } )

\* a faulty catch block that empties the pending set
CatchMarkersClearsAll(pending, k) == { }

\* pendingOperations.delete(...) in the catch block of the call k
CatchMarkers(pending, k) ==
    pending \ CallMarkers(k.kind, k.op, k.id, k.existingLinks)

\* the catch block of the store action that issued the call k
Catch(st, k) ==
    CASE k.kind = "person" /\ k.op = "create" -> AddPersonCatch(st, k.id)
      [] k.kind = "person" /\ k.op = "update" -> UpdatePersonCatch(st, k.id, k.existing[1])
      [] k.kind = "person" /\ k.op = "delete" -> DeletePersonCatch(st, k.existing[1], k.existingLinks)
      [] k.kind = "link" /\ k.op = "create" -> AddLinkCatch(st, k.id)
      [] k.kind = "link" /\ k.op = "update" -> UpdateLinkCatch(st, k.id, k.existing[1])
      [] k.kind = "link" /\ k.op = "delete" -> DeleteLinkCatch(st, k.existing[1])

\* the marker a socket handler looks up for an event
EventOp(op) ==
    CASE op = "created" -> "create" [] op = "updated" -> "update" [] op = "deleted" -> "delete"
EventMarker(ev) == Marker(ev.kind, EventOp(ev.op), ev.payload.id)

\* the store method a socket handler calls when the event is not an echo
ApplyEvent(st, ev) ==
    CASE ev.kind = "person" /\ ev.op = "created" -> AddPersonFromSocket(st, ev.payload)
      [] ev.kind = "person" /\ ev.op = "updated" -> UpdatePersonFromSocket(st, ev.payload)
      [] ev.kind = "person" /\ ev.op = "deleted" -> DeletePersonFromSocket(st, ev.payload.id)
      [] ev.kind = "link" /\ ev.op = "created" -> AddLinkFromSocket(st, ev.payload)
      [] ev.kind = "link" /\ ev.op = "updated" -> UpdateLinkFromSocket(st, ev.payload)
      [] ev.kind = "link" /\ ev.op = "deleted" -> DeleteLinkFromSocket(st, ev.payload.id)

\* a faulty handler that applies the event whether or not it is an echo
HandlerStoreAppliesEcho(st, pending, ev) == ApplyEvent(st, ev)

\* onPersonCreated .. onLinkDeleted: the state after the handler
HandlerStore(st, pending, ev) ==
    IF EventMarker(ev) \in pending THEN st ELSE ApplyEvent(st, ev)
HandlerPending(pending, ev) ==
    IF EventMarker(ev) \in pending THEN pending \ { EventMarker(ev) } ELSE pending


\* ---------------------------------------------------------------- Init
\* create<StoreState>(...): the state the store is constructed with
InitialStore(c) ==
    [ people |-> CachedPeople(c),
      links |-> CachedLinks(c),
      isLoading |-> TRUE,
      isConnected |-> FALSE,
      error |-> NoError,
      selectedPersonId |-> NoId,
      selectedLinkId |-> NoId ]

NoFetch == [active |-> FALSE, people |-> << >>, links |-> << >>, failed |-> FALSE]

\* the store after the first initializeStore of a client has fetched the
\* rows and its socket has connected
Mounted(c) ==
    [ InitialStore(c) EXCEPT !.people = SortDesc(InitialPeople),
                             !.links = SortDesc(InitialLinks),
                             !.isLoading = FALSE,
                             !.isConnected = TRUE ]

\* every client has started and shows the graph
\* nothing rendered, no dialog, no timer, no reconnection under way
NoCanvas ==
    [ people |-> << >>, rendered |-> FALSE, threw |-> FALSE,
      streamLinks |-> << >>, interestLinks |-> << >>,
      personId |-> NoId, panelStreamLinks |-> << >>, panelInterestLinks |-> << >> ]
NoAction == [op |-> "null", id |-> NoId]
\* replaced is no field of the store: the action that the latest
\* openConfirmDialog found in an open dialog and replaced
NoGate == [isConfirmDialogOpen |-> FALSE, confirmDialogMessage |-> "",
           confirmDialogAction |-> NoAction, replaced |-> NoAction]
\* now, timers: the time and the timer table of the browser; storage: the
\* viewport of the last saveToStorage. moves, lastCall, burstCalls and
\* burstWrites are no state of the program: the calls of setViewport so far,
\* the time of the last one, and the calls and the writes of the burst it
\* belongs to
NoTime == -1
NoAutosave ==
    [ now |-> 0, viewport |-> 0, saveTimeout |-> 0, timers |-> { }, storage |-> 0,
      moves |-> 0, lastCall |-> NoTime, burstCalls |-> 0, burstWrites |-> 0 ]
AuxInit ==
    /\ attempts = [c \in Clients |-> 0]
    /\ canvas = NoCanvas
    /\ gate = [c \in Clients |-> NoGate]
    /\ autosave = [c \in Clients |-> NoAutosave]
    /\ mounted = [c \in Clients |-> TRUE]

Init ==
    /\ clock = InitialClock
    /\ faults = 0
    /\ dbPeople = InitialPeople
    /\ dbLinks = InitialLinks
    /\ store = [c \in Clients |-> Mounted(c)]
    /\ pendingOperations = [c \in Clients |-> { }]
    /\ socket = [c \in Clients |-> "connected"]
    /\ queue = [c \in Clients |-> << >>]
    /\ calls = { }
    /\ fetch = [c \in Clients |-> NoFetch]
    /\ drops = [c \in Clients |-> 0]
    /\ AuxInit
    /\ last = [act |-> "init", c |-> 0, id |-> NoId, alone |-> FALSE]

\* client 1 shows the graph; client 2 has just been constructed and runs
\* its first initializeStore
InitMount ==
    /\ clock = InitialClock
    /\ faults = 0
    /\ dbPeople = InitialPeople
    /\ dbLinks = InitialLinks
    /\ store = [c \in Clients |-> IF c = 1 THEN Mounted(c) ELSE InitialStore(c)]
    /\ pendingOperations = [c \in Clients |-> { }]
    /\ socket = [c \in Clients |-> IF c = 1 THEN "connected" ELSE "null"]
    /\ queue = [c \in Clients |-> << >>]
    /\ calls = { }
    /\ fetch = [c \in Clients |-> NoFetch]
    /\ drops = [c \in Clients |-> 0]
    /\ AuxInit
    /\ last = [act |-> "init", c |-> 0, id |-> NoId, alone |-> FALSE]

\* ------------------------------------------------------ client actions
\* App renders the graph (and its forms) only when neither the loading
\* screen nor the error screen is shown
\* the graph view is on the screen
UiReady(c) == mounted[c] /\ ~store[c].isLoading /\ store[c].error = NoError
CanAct == clock < InitialClock + MaxOps

\* what a call remembers of the state it was invoked in (for the claims
\* about rollback; the code keeps only existing and existingLinks)
Snap(st) ==
    [ people |-> st.people, links |-> st.links,
      selectedPersonId |-> st.selectedPersonId,
      selectedLinkId |-> st.selectedLinkId ]

\* a REST call in flight: fetchApi's promise, with the closure of the store
\* action that awaits it
Call(n, c, kind, op, id, body, existing, existingLinks, st) ==
    [ n |-> n, c |-> c, kind |-> kind, op |-> op, id |-> id, body |-> body,
      existing |-> existing, existingLinks |-> existingLinks,
      st |-> "sent", alone |-> TRUE, snap |-> Snap(st) ]

\* another handler of client c ran while its calls were in flight
Touch(c, cs) == { [k EXCEPT !.alone = IF k.c = c THEN FALSE ELSE @] : k \in cs }

\* last: the handler of this step; alone is set by a catch block whose call
\* saw no other handler of its client between its invocation and its catch
Did(act, c, id) == last' = [act |-> act, c |-> c, id |-> id, alone |-> FALSE]

addPerson(c) ==
    /\ UiReady(c) /\ CanAct
    /\ LET now == clock + 1
           person == [ id |-> now, name |-> NewPersonData.name,
                       stream |-> NewPersonData.stream,
                       interests |-> NewPersonData.interests,
                       createdAt |-> now, updatedAt |-> now ]
       IN /\ clock' = now
          /\ store' = [store EXCEPT ![c] = AddPersonApply(@, person)]
          /\ pendingOperations' = [pendingOperations EXCEPT
                 ![c] = @ \cup CallMarkers("person", "create", person.id, << >>)]
          /\ calls' = Touch(c, calls) \cup
                 { Call(now, c, "person", "create", person.id, << person >>,
                        << >>, << >>, store[c]) }
          /\ Did("addPerson", c, person.id)
    /\ UNCHANGED << faults, dbPeople, dbLinks, socket, queue, fetch, drops, aux >>

\* ids the UI can still hold when it calls update or delete: a record shown
\* now, or one of the first records, removed since the form was opened
PersonArgs(c) == Ids(store[c].people) \cup Ids(InitialPeople)
LinkArgs(c) == Ids(store[c].links) \cup Ids(InitialLinks)

\* a faulty guard: the markers are added before the id is looked up
PendingBeforeGuard(pending, present, markers) == pending \cup markers

\* if (!existing) return; ... pendingOperations.add(marker): the markers
\* are added only past the guard
PendingAfter(pending, present, markers) ==
    IF present THEN pending \cup markers ELSE pending

updatePerson(c) ==
    /\ UiReady(c) /\ CanAct
    /\ \E id \in PersonArgs(c), updates \in PersonUpdates :
        LET present == Has(store[c].people, id)
        IN /\ clock' = clock + 1
           /\ pendingOperations' = [pendingOperations EXCEPT
                  ![c] = PendingAfter(@, present, CallMarkers("person", "update", id, << >>))]
           /\ IF ~present
              THEN UNCHANGED << store, calls >>
              ELSE LET existingPerson == Find(store[c].people, id)
                       updatedPerson == Merge(existingPerson, updates, clock + 1)
                   IN /\ store' = [store EXCEPT ![c] = UpdatePersonApply(@, id, updatedPerson)]
                      /\ calls' = Touch(c, calls) \cup
                             { Call(clock + 1, c, "person", "update", id, << updatedPerson >>,
                                    << existingPerson >>, << >>, store[c]) }
           /\ Did("updatePerson", c, id)
    /\ UNCHANGED << faults, dbPeople, dbLinks, socket, queue, fetch, drops, aux >>

\* deletePerson(id) of the store, up to its await
DeletePersonCalled(c, id) ==
    /\ CanAct
    /\ LET present == Has(store[c].people, id)
           existingLinks == WithEndpoint(store[c].links, id)
       IN /\ clock' = clock + 1
          /\ pendingOperations' = [pendingOperations EXCEPT
                 ![c] = PendingAfter(@, present, CallMarkers("person", "delete", id, existingLinks))]
          /\ IF ~present
             THEN UNCHANGED << store, calls >>
             ELSE LET existingPerson == Find(store[c].people, id)
                  IN /\ store' = [store EXCEPT ![c] = DeletePersonApply(@, id)]
                     /\ calls' = Touch(c, calls) \cup
                            { Call(clock + 1, c, "person", "delete", id, << >>,
                                   << existingPerson >>, existingLinks, store[c]) }
          /\ Did("deletePerson", c, id)
    /\ UNCHANGED << faults, dbPeople, dbLinks, socket, queue, fetch, drops >>

deletePerson(c) ==
    /\ UiReady(c)
    /\ \E id \in PersonArgs(c) : DeletePersonCalled(c, id)
    /\ UNCHANGED aux

addLink(c) ==
    /\ UiReady(c) /\ CanAct
    /\ \E sourceId \in Ids(store[c].people), targetId \in Ids(store[c].people) :
        /\ sourceId # targetId
        /\ LET now == clock + 1
               link == [ id |-> now, sourceId |-> sourceId, targetId |-> targetId,
                         description |-> NewLinkDescription,
                         createdAt |-> now, updatedAt |-> now ]
           IN /\ clock' = now
              /\ store' = [store EXCEPT ![c] = AddLinkApply(@, link)]
              /\ pendingOperations' = [pendingOperations EXCEPT
                     ![c] = @ \cup CallMarkers("link", "create", link.id, << >>)]
              /\ calls' = Touch(c, calls) \cup
                     { Call(now, c, "link", "create", link.id, << link >>,
                            << >>, << >>, store[c]) }
              /\ Did("addLink", c, link.id)
    /\ UNCHANGED << faults, dbPeople, dbLinks, socket, queue, fetch, drops, aux >>

updateLink(c) ==
    /\ UiReady(c) /\ CanAct
    /\ \E id \in LinkArgs(c), updates \in LinkUpdates :
        LET present == Has(store[c].links, id)
        IN /\ clock' = clock + 1
           /\ pendingOperations' = [pendingOperations EXCEPT
                  ![c] = PendingAfter(@, present, CallMarkers("link", "update", id, << >>))]
           /\ IF ~present
              THEN UNCHANGED << store, calls >>
              ELSE LET existingLink == Find(store[c].links, id)
                       updatedLink == Merge(existingLink, updates, clock + 1)
                   IN /\ store' = [store EXCEPT ![c] = UpdateLinkApply(@, id, updatedLink)]
                      /\ calls' = Touch(c, calls) \cup
                             { Call(clock + 1, c, "link", "update", id, << updatedLink >>,
                                    << existingLink >>, << >>, store[c]) }
           /\ Did("updateLink", c, id)
    /\ UNCHANGED << faults, dbPeople, dbLinks, socket, queue, fetch, drops, aux >>

\* deleteLink(id) of the store, up to its await
DeleteLinkCalled(c, id) ==
    /\ CanAct
    /\ LET present == Has(store[c].links, id)
       IN /\ clock' = clock + 1
          /\ pendingOperations' = [pendingOperations EXCEPT
                 ![c] = PendingAfter(@, present, CallMarkers("link", "delete", id, << >>))]
          /\ IF ~present
             THEN UNCHANGED << store, calls >>
             ELSE LET existingLink == Find(store[c].links, id)
                  IN /\ store' = [store EXCEPT ![c] = DeleteLinkApply(@, id)]
                     /\ calls' = Touch(c, calls) \cup
                            { Call(clock + 1, c, "link", "delete", id, << >>,
                                   << existingLink >>, << >>, store[c]) }
          /\ Did("deleteLink", c, id)
    /\ UNCHANGED << faults, dbPeople, dbLinks, socket, queue, fetch, drops >>

deleteLink(c) ==
    /\ UiReady(c)
    /\ \E id \in LinkArgs(c) : DeleteLinkCalled(c, id)
    /\ UNCHANGED aux

\* the await of a store action throws: its catch block runs
Rejected(c) ==
    /\ \E k \in calls :
        /\ k.c = c /\ k.st = "fail"
        /\ pendingOperations' = [pendingOperations EXCEPT ![c] = CatchMarkers(@, k)]
        /\ store' = [store EXCEPT ![c] = Catch(@, k)]
        /\ calls' = Touch(c, calls \ { k })
        /\ last' = [act |-> "rejected", c |-> c, id |-> k.id, alone |-> k.alone]
    /\ UNCHANGED << clock, faults, dbPeople, dbLinks, socket, queue, fetch, drops, aux >>

\* a faulty selectPerson that leaves the selected link selected
SelectPersonKeepsLink(st, id) == [st EXCEPT !.selectedPersonId = id]

\* the set() of selectPerson, selectLink and clearSelection
SelectPersonApply(st, id) ==
    [st EXCEPT !.selectedPersonId = id, !.selectedLinkId = NoId]
SelectLinkApply(st, id) ==
    [st EXCEPT !.selectedLinkId = id, !.selectedPersonId = NoId]
ClearSelectionApply(st) ==
    [st EXCEPT !.selectedPersonId = NoId, !.selectedLinkId = NoId]

selectPerson(c) ==
    /\ UiReady(c) /\ CanAct
    /\ \E id \in Ids(store[c].people) :
        /\ store' = [store EXCEPT ![c] = SelectPersonApply(@, id)]
        /\ Did("selectPerson", c, id)
    /\ clock' = clock + 1
    /\ calls' = Touch(c, calls)
    /\ UNCHANGED << faults, dbPeople, dbLinks, pendingOperations, socket, queue, fetch, drops, aux >>

selectLink(c) ==
    /\ UiReady(c) /\ CanAct
    /\ \E id \in Ids(store[c].links) :
        /\ store' = [store EXCEPT ![c] = SelectLinkApply(@, id)]
        /\ Did("selectLink", c, id)
    /\ clock' = clock + 1
    /\ calls' = Touch(c, calls)
    /\ UNCHANGED << faults, dbPeople, dbLinks, pendingOperations, socket, queue, fetch, drops, aux >>

\* Escape: App's keydown listener stays registered on every screen
clearSelection(c) ==
    /\ CanAct
    /\ store' = [store EXCEPT ![c] = ClearSelectionApply(@)]
    /\ Did("clearSelection", c, NoId)
    /\ clock' = clock + 1
    /\ calls' = Touch(c, calls)
    /\ UNCHANGED << faults, dbPeople, dbLinks, pendingOperations, socket, queue, fetch, drops, aux >>


\* ---------------------------------------------------------- bootstrap
\* useEffect on mount, or the Retry button of the error screen
initializeStore(c) ==
    /\ mounted[c]
    /\ ~fetch[c].active
    /\ store[c].isLoading \/ store[c].error # NoError
    /\ store' = [store EXCEPT ![c].isLoading = TRUE, ![c].error = NoError]
    /\ fetch' = [fetch EXCEPT ![c] = [NoFetch EXCEPT !.active = TRUE]]
    /\ calls' = Touch(c, calls)
    /\ Did("initializeStore", c, NoId)
    /\ UNCHANGED << clock, faults, dbPeople, dbLinks, pendingOperations, socket, queue, drops, aux >>

\* a faulty initializeStore that never opens the socket
InitializeSocketNever(sock) == sock

\* initializeSocket(handlers): the module keeps one socket
InitializeSocket(sock) == IF sock # "null" THEN sock ELSE "connecting"

\* fetchAllData() returned: set({people, links, isLoading: false}), then
\* initializeSocket(handlers)
initializeStoreFetched(c) ==
    /\ fetch[c].active /\ ~fetch[c].failed
    /\ fetch[c].people # << >> /\ fetch[c].links # << >>
    /\ store' = [store EXCEPT ![c].people = fetch[c].people[1],
                              ![c].links = fetch[c].links[1],
                              ![c].isLoading = FALSE]
    /\ socket' = [socket EXCEPT ![c] = InitializeSocket(@)]
    /\ fetch' = [fetch EXCEPT ![c] = NoFetch]
    /\ calls' = Touch(c, calls)
    /\ Did("initializeStoreFetched", c, NoId)
    /\ UNCHANGED << clock, faults, dbPeople, dbLinks, pendingOperations, queue, drops, aux >>

\* a faulty catch block that also drops what the store holds
InitializeStoreCatchClears(st, message) ==
    [st EXCEPT !.isLoading = FALSE, !.error = message,
               !.people = << >>, !.links = << >>]

\* set({isLoading: false, error: error.message}) in the catch block
InitializeStoreCatchApply(st, message) ==
    [st EXCEPT !.isLoading = FALSE, !.error = message]

\* fetchAllData() threw: the catch block of initializeStore
initializeStoreCatch(c) ==
    /\ fetch[c].active /\ fetch[c].failed
    /\ store' = [store EXCEPT ![c] = InitializeStoreCatchApply(@, "Failed to fetch")]
    /\ fetch' = [fetch EXCEPT ![c] = NoFetch]
    /\ calls' = Touch(c, calls)
    /\ Did("initializeStoreCatch", c, NoId)
    /\ UNCHANGED << clock, faults, dbPeople, dbLinks, pendingOperations, socket, queue, drops, aux >>

\* socket.on('connect'): handlers.onConnect, on the first connection and
\* on every reconnection
onConnect(c) ==
    /\ socket[c] \in { "connecting", "reconnecting" }
    /\ socket' = [socket EXCEPT ![c] = "connected"]
    /\ store' = [store EXCEPT ![c].isConnected = TRUE]
    /\ calls' = Touch(c, calls)
    /\ attempts' = [attempts EXCEPT ![c] = 0]
    /\ Did("onConnect", c, NoId)
    /\ UNCHANGED << clock, faults, dbPeople, dbLinks, pendingOperations, queue, fetch, drops,
                    canvas, gate, autosave, mounted >>

\* reconnectionAttempts of the options initializeSocket hands to io()
reconnectionAttempts == 5

\* socket.on('connect_error'): an attempt to connect fails, which the module
\* only logs. socket.io-client tries again after the delay; when
\* reconnectionAttempts reconnections have failed it gives up, and the
\* module keeps the socket it made
onConnectError(c) ==
    /\ socket[c] \in { "connecting", "reconnecting" }
    /\ attempts[c] < reconnectionAttempts
    /\ IF socket[c] = "connecting"
       THEN /\ socket' = [socket EXCEPT ![c] = "reconnecting"]
            /\ UNCHANGED attempts
       ELSE /\ attempts' = [attempts EXCEPT ![c] = @ + 1]
            /\ socket' = [socket EXCEPT ![c] =
                   IF attempts[c] + 1 = reconnectionAttempts THEN "failed" ELSE @]
    /\ calls' = Touch(c, calls)
    /\ Did("onConnectError", c, NoId)
    /\ UNCHANGED << clock, faults, dbPeople, dbLinks, store, pendingOperations, queue,
                    fetch, drops, canvas, gate, autosave, mounted >>

\* the sum of f over S
RECURSIVE Total(_, _)
Total(f, S) ==
    IF S = { } THEN 0
    ELSE LET x == CHOOSE x \in S : TRUE
         IN f[x] + Total(f, S \ { x })

\* socket.on('disconnect'): handlers.onDisconnect. The connection is lost;
\* socket.io-client reconnects by itself, and what the server emits or had
\* emitted but not delivered is not sent again
onDisconnect(c) ==
    /\ socket[c] = "connected"
    /\ Total(drops, Clients) < MaxDrops
    /\ drops' = [drops EXCEPT ![c] = @ + 1]
    /\ socket' = [socket EXCEPT ![c] = "reconnecting"]
    /\ queue' = [queue EXCEPT ![c] = << >>]
    /\ store' = [store EXCEPT ![c].isConnected = FALSE]
    /\ calls' = Touch(c, calls)
    /\ Did("onDisconnect", c, NoId)
    /\ UNCHANGED << clock, faults, dbPeople, dbLinks, pendingOperations, fetch, aux >>

\* socket.on('person:created') .. socket.on('link:deleted')
onEvent(c) ==
    /\ socket[c] = "connected"
    /\ queue[c] # << >>
    /\ LET ev == Head(queue[c])
       IN /\ store' = [store EXCEPT ![c] = HandlerStore(@, pendingOperations[c], ev)]
          /\ pendingOperations' = [pendingOperations EXCEPT ![c] = HandlerPending(@, ev)]
          /\ Did(IF EventMarker(ev) \in pendingOperations[c] THEN "onEvent:echo" ELSE "onEvent",
                 c, ev.payload.id)
    /\ queue' = [queue EXCEPT ![c] = Tail(@)]
    /\ calls' = Touch(c, calls)
    /\ UNCHANGED << clock, faults, dbPeople, dbLinks, socket, fetch, drops, aux >>

\* ------------------------------------------------------------- server
Event(kind, op, payload) == [kind |-> kind, op |-> op, payload |-> payload]

\* io.emit: to every socket connected now, the sender's included
Emit(q, evs) ==
    [c \in Clients |-> IF socket[c] = "connected" THEN q[c] \o evs ELSE q[c]]

\* a 4xx/5xx answer: fetchApi will throw in the client
Thrown(k) == (calls \ { k }) \cup { [k EXCEPT !.st = "fail"] }
\* a 2xx answer: the await of the store action returns and the action ends
\* without another statement, so the call is over with the answer
Returned(k) == calls \ { k }

\* the person / link object a route builds from req.body
BodyPerson(b, createdAt) ==
    [ id |-> b.id, name |-> b.name, stream |-> b.stream, interests |-> b.interests,
      createdAt |-> createdAt, updatedAt |-> b.updatedAt ]
BodyLink(b, createdAt) ==
    [ id |-> b.id, sourceId |-> b.sourceId, targetId |-> b.targetId,
      description |-> b.description, createdAt |-> createdAt, updatedAt |-> b.updatedAt ]

Sent(k, kind, op) == k.st = "sent" /\ k.kind = kind /\ k.op = op

\* POST /api/people
PostPerson ==
    \E k \in calls :
        /\ Sent(k, "person", "create")
        /\ LET person == BodyPerson(k.body[1], k.body[1].createdAt)
           IN IF Has(dbPeople, person.id)
              THEN /\ calls' = Thrown(k)
                   /\ UNCHANGED << dbPeople, queue, drops, aux >>
              ELSE /\ dbPeople' = Append(dbPeople, person)
                   /\ queue' = Emit(queue, << Event("person", "created", person) >>)
                   /\ calls' = Returned(k)
        /\ Did("PostPerson", k.c, k.id)
        /\ UNCHANGED << clock, faults, dbLinks, store, pendingOperations, socket, fetch, drops, aux >>

\* PUT /api/people/:id
PutPerson ==
    \E k \in calls :
        /\ Sent(k, "person", "update")
        /\ IF ~Has(dbPeople, k.id)
           THEN /\ calls' = Thrown(k)
                /\ UNCHANGED << dbPeople, queue, drops, aux >>
           ELSE LET person == BodyPerson(k.body[1], Find(dbPeople, k.id).createdAt)
                IN /\ dbPeople' = Replace(dbPeople, k.id, person)
                   /\ queue' = Emit(queue, << Event("person", "updated", person) >>)
                   /\ calls' = Returned(k)
        /\ Did("PutPerson", k.c, k.id)
        /\ UNCHANGED << clock, faults, dbLinks, store, pendingOperations, socket, fetch, drops, aux >>

\* the link:deleted events DELETE /api/people/:id emits before it deletes
LinkDeletedEvents(id) ==
    LET ls == WithEndpoint(dbLinks, id)
    IN [i \in DOMAIN ls |-> Event("link", "deleted", [id |-> ls[i].id])]

\* DELETE /api/people/:id (ON DELETE CASCADE removes the links' rows)
DeletePersonRoute ==
    \E k \in calls :
        /\ Sent(k, "person", "delete")
        /\ IF ~Has(dbPeople, k.id)
           THEN /\ calls' = Thrown(k)
                /\ UNCHANGED << dbPeople, dbLinks, queue, drops, aux >>
           ELSE /\ dbPeople' = Without(dbPeople, k.id)
                /\ dbLinks' = WithoutEndpoint(dbLinks, k.id)
                /\ queue' = Emit(queue, LinkDeletedEvents(k.id) \o
                                        << Event("person", "deleted", [id |-> k.id]) >>)
                /\ calls' = Returned(k)
        /\ Did("DeletePersonRoute", k.c, k.id)
        /\ UNCHANGED << clock, faults, store, pendingOperations, socket, fetch, drops, aux >>

\* a faulty verification that looks up the source only
SourceExists(people, link) == Has(people, link.sourceId)

\* POST /api/links: "Verify source and target people exist"
EndpointsExist(people, link) ==
    Has(people, link.sourceId) /\ Has(people, link.targetId)

\* POST /api/links
PostLink ==
    \E k \in calls :
        /\ Sent(k, "link", "create")
        /\ LET link == BodyLink(k.body[1], k.body[1].createdAt)
           IN IF ~EndpointsExist(dbPeople, link) \/ Has(dbLinks, link.id)
              THEN /\ calls' = Thrown(k)
                   /\ UNCHANGED << dbLinks, queue >>
              ELSE /\ dbLinks' = Append(dbLinks, link)
                   /\ queue' = Emit(queue, << Event("link", "created", link) >>)
                   /\ calls' = Returned(k)
        /\ Did("PostLink", k.c, k.id)
        /\ UNCHANGED << clock, faults, dbPeople, store, pendingOperations, socket, fetch, drops, aux >>

\* PUT /api/links/:id
PutLink ==
    \E k \in calls :
        /\ Sent(k, "link", "update")
        /\ IF ~Has(dbLinks, k.id)
           THEN /\ calls' = Thrown(k)
                /\ UNCHANGED << dbLinks, queue >>
           ELSE LET link == BodyLink(k.body[1], Find(dbLinks, k.id).createdAt)
                IN /\ dbLinks' = Replace(dbLinks, k.id, link)
                   /\ queue' = Emit(queue, << Event("link", "updated", link) >>)
                   /\ calls' = Returned(k)
        /\ Did("PutLink", k.c, k.id)
        /\ UNCHANGED << clock, faults, dbPeople, store, pendingOperations, socket, fetch, drops, aux >>

\* DELETE /api/links/:id
DeleteLinkRoute ==
    \E k \in calls :
        /\ Sent(k, "link", "delete")
        /\ IF ~Has(dbLinks, k.id)
           THEN /\ calls' = Thrown(k)
                /\ UNCHANGED << dbLinks, queue >>
           ELSE /\ dbLinks' = Without(dbLinks, k.id)
                /\ queue' = Emit(queue, << Event("link", "deleted", [id |-> k.id]) >>)
                /\ calls' = Returned(k)
        /\ Did("DeleteLinkRoute", k.c, k.id)
        /\ UNCHANGED << clock, faults, dbPeople, store, pendingOperations, socket, fetch, drops, aux >>

\* a request answered 500 (db.execute throws in the route's try block) or
\* lost by the network (fetch rejects): nothing is stored, nothing emitted
RequestFails ==
    /\ faults < MaxFaults
    /\ \E k \in calls :
        /\ k.st = "sent"
        /\ calls' = Thrown(k)
        /\ Did("RequestFails", k.c, k.id)
    /\ faults' = faults + 1
    /\ UNCHANGED << clock, dbPeople, dbLinks, store, pendingOperations, socket, queue, fetch, drops, aux >>

\* DELETE /api/people/:id whose last db.execute (the DELETE) throws: the
\* link:deleted events were emitted before it
DeletePersonRouteFails ==
    /\ faults < MaxFaults
    /\ \E k \in calls :
        /\ Sent(k, "person", "delete")
        /\ Has(dbPeople, k.id)
        /\ LinkDeletedEvents(k.id) # << >>
        /\ queue' = Emit(queue, LinkDeletedEvents(k.id))
        /\ calls' = Thrown(k)
        /\ Did("DeletePersonRouteFails", k.c, k.id)
    /\ faults' = faults + 1
    /\ UNCHANGED << clock, dbPeople, dbLinks, store, pendingOperations, socket, fetch, drops, aux >>

\* GET /api/people and GET /api/links, the two requests of fetchAllData
GetPeople(c) ==
    /\ fetch[c].active /\ ~fetch[c].failed /\ fetch[c].people = << >>
    /\ fetch' = [fetch EXCEPT ![c].people = << SortDesc(dbPeople) >>]
    /\ Did("GetPeople", c, NoId)
    /\ UNCHANGED << clock, faults, dbPeople, dbLinks, store, pendingOperations,
                    socket, queue, calls, drops, aux >>

GetLinks(c) ==
    /\ fetch[c].active /\ ~fetch[c].failed /\ fetch[c].links = << >>
    /\ fetch' = [fetch EXCEPT ![c].links = << SortDesc(dbLinks) >>]
    /\ Did("GetLinks", c, NoId)
    /\ UNCHANGED << clock, faults, dbPeople, dbLinks, store, pendingOperations,
                    socket, queue, calls, drops, aux >>

\* one of the two GETs answers 500 or is lost: Promise.all rejects
FetchFails(c) ==
    /\ faults < MaxFaults
    /\ fetch[c].active /\ ~fetch[c].failed
    /\ fetch[c].people = << >> \/ fetch[c].links = << >>
    /\ fetch' = [fetch EXCEPT ![c].failed = TRUE]
    /\ faults' = faults + 1
    /\ Did("FetchFails", c, NoId)
    /\ UNCHANGED << clock, dbPeople, dbLinks, store, pendingOperations,
                    socket, queue, calls, drops, aux >>

\* ----------------------------------------------------------------- Next
Next ==
    \/ \E c \in Clients : initializeStore(c)
    \/ \E c \in Clients : initializeStoreFetched(c)
    \/ \E c \in Clients : initializeStoreCatch(c)
    \/ \E c \in Clients : onEvent(c)
    \/ \E c \in Clients : addPerson(c)
    \/ \E c \in Clients : updatePerson(c)
    \/ \E c \in Clients : deletePerson(c)
    \/ \E c \in Clients : addLink(c)
    \/ \E c \in Clients : updateLink(c)
    \/ \E c \in Clients : deleteLink(c)
    \/ \E c \in Clients : selectPerson(c)
    \/ \E c \in Clients : selectLink(c)
    \/ \E c \in Clients : clearSelection(c)
    \/ \E c \in Clients : Rejected(c)
    \/ PostPerson
    \/ PutPerson
    \/ DeletePersonRoute
    \/ PostLink
    \/ PutLink
    \/ DeleteLinkRoute
    \/ RequestFails
    \/ DeletePersonRouteFails
    \/ \E c \in Clients : GetPeople(c)
    \/ \E c \in Clients : GetLinks(c)
    \/ \E c \in Clients : FetchFails(c)

\* the clients stay connected
Spec == Init /\ [][Next]_vars

\* connections may be lost and made again
NextNet ==
    \/ Next
    \/ \E c \in Clients : onConnect(c)
    \/ \E c \in Clients : onDisconnect(c)

SpecNet == Init /\ [][NextNet]_vars


\* every client shows the graph; client 1 has just lost its connection
\* (onDisconnect has run) and socket.io-client is reconnecting
InitReconnecting ==
    /\ clock = InitialClock
    /\ faults = 0
    /\ dbPeople = InitialPeople
    /\ dbLinks = InitialLinks
    /\ store = [c \in Clients |->
                  IF c = 1 THEN [Mounted(c) EXCEPT !.isConnected = FALSE] ELSE Mounted(c)]
    /\ pendingOperations = [c \in Clients |-> { }]
    /\ socket = [c \in Clients |-> IF c = 1 THEN "reconnecting" ELSE "connected"]
    /\ queue = [c \in Clients |-> << >>]
    /\ calls = { }
    /\ fetch = [c \in Clients |-> NoFetch]
    /\ drops = [c \in Clients |-> IF c = 1 THEN 1 ELSE 0]
    /\ AuxInit
    /\ last = [act |-> "onDisconnect", c |-> 1, id |-> NoId, alone |-> FALSE]

\* the connection is made again at some time; none is lost after that
NextReconnect ==
    \/ Next
    \/ \E c \in Clients : onConnect(c)

SpecReconnect == InitReconnecting /\ [][NextReconnect]_vars

\* client 2 starts: its first initializeStore, and its socket's first
\* connection
SpecMount == InitMount /\ [][NextReconnect]_vars


\* client 1 has lost its connection and the attempts to make it again may
\* fail
NextExhaust ==
    \/ NextReconnect
    \/ \E c \in Clients : onConnectError(c)

SpecExhaust == InitReconnecting /\ [][NextExhaust]_vars

\* ---------------------------------------------------------- unmount
\* disconnectSocket(): if (socket) { socket.disconnect(); socket = null }
DisconnectSocket(sock) == "null"

\* the cleanup of App's mount effect: cleanupStore(), which is
\* disconnectSocket(). A connected socket emits 'disconnect' as it closes,
\* and nothing is delivered to it any more. An initializeStore that awaits
\* its fetch goes on.
cleanupStore(c) ==
    /\ mounted[c]
    /\ mounted' = [mounted EXCEPT ![c] = FALSE]
    /\ socket' = [socket EXCEPT ![c] = DisconnectSocket(@)]
    /\ queue' = [queue EXCEPT ![c] = IF socket'[c] = "null" THEN << >> ELSE @]
    /\ store' = [store EXCEPT ![c].isConnected =
                    IF socket[c] = "connected" /\ socket'[c] = "null" THEN FALSE ELSE @]
    /\ calls' = Touch(c, calls)
    /\ Did("cleanupStore", c, NoId)
    /\ UNCHANGED << clock, faults, dbPeople, dbLinks, pendingOperations, fetch, drops,
                    attempts, canvas, gate, autosave >>

NextUnmount ==
    \/ \E c \in Clients : initializeStore(c)
    \/ \E c \in Clients : initializeStoreFetched(c)
    \/ \E c \in Clients : initializeStoreCatch(c)
    \/ \E c \in Clients : GetPeople(c)
    \/ \E c \in Clients : GetLinks(c)
    \/ \E c \in Clients : FetchFails(c)
    \/ \E c \in Clients : onConnect(c)
    \/ \E c \in Clients : onEvent(c)
    \/ \E c \in Clients : cleanupStore(c)
    \/ addPerson(1)
    \/ updatePerson(1)
    \/ deletePerson(1)
    \/ PostPerson
    \/ PutPerson
    \/ DeletePersonRoute

\* client 1 shows the graph and edits people, client 2 mounts; either may
\* unmount at any time
SpecUnmount == InitMount /\ [][NextUnmount]_vars

\* ------------------------------------------------------ confirm dialog
\* openConfirmDialog(message, action): set({isConfirmDialogOpen: true,
\* confirmDialogMessage: message, confirmDialogAction: action})
OpenConfirmDialog(g, message, action) ==
    [ isConfirmDialogOpen |-> TRUE, confirmDialogMessage |-> message,
      confirmDialogAction |-> action,
      replaced |-> IF g.isConfirmDialogOpen THEN g.confirmDialogAction ELSE NoAction ]

\* a faulty closeConfirmDialog that only hides the dialog
CloseConfirmDialogKeepsAction(g) == [g EXCEPT !.isConfirmDialogOpen = FALSE]

\* closeConfirmDialog(): set({isConfirmDialogOpen: false,
\* confirmDialogMessage: '', confirmDialogAction: null})
CloseConfirmDialog(g) ==
    [g EXCEPT !.isConfirmDialogOpen = FALSE, !.confirmDialogMessage = "",
              !.confirmDialogAction = NoAction]

\* the closure a delete trigger hands to openConfirmDialog, and its message,
\* for the selection of the client: () => deletePerson(selectedPersonId),
\* else () => deleteLink(selectedLinkId)
DeleteOfSelected(st) ==
    IF st.selectedPersonId # NoId
    THEN [op |-> "deletePerson", id |-> st.selectedPersonId]
    ELSE [op |-> "deleteLink", id |-> st.selectedLinkId]
MessageOfSelected(st) ==
    IF st.selectedPersonId # NoId
    THEN "Are you sure you want to delete this person?"
    ELSE "Are you sure you want to delete this connection?"
\* the selected person, else the selected link, is held: getPersonById /
\* getLinkById find it
SelectedHeld(st) ==
    IF st.selectedPersonId # NoId THEN Has(st.people, st.selectedPersonId)
    ELSE st.selectedLinkId # NoId /\ Has(st.links, st.selectedLinkId)

\* a faulty key handler that deletes the selection at once
handleKeyDownDeletes(c) ==
    /\ SelectedHeld(store[c])
    /\ IF store[c].selectedPersonId # NoId
       THEN DeletePersonCalled(c, store[c].selectedPersonId)
       ELSE DeleteLinkCalled(c, store[c].selectedLinkId)
    /\ UNCHANGED aux

\* App handleKeyDown with Delete or Backspace (the listener is on the
\* document, whatever screen App shows)
handleKeyDown(c) ==
    /\ SelectedHeld(store[c])
    /\ gate' = [gate EXCEPT ![c] =
           OpenConfirmDialog(@, MessageOfSelected(store[c]), DeleteOfSelected(store[c]))]
    /\ calls' = Touch(c, calls)
    /\ Did("handleKeyDown", c, DeleteOfSelected(store[c]).id)
    /\ UNCHANGED << clock, faults, dbPeople, dbLinks, store, pendingOperations, socket,
                    queue, fetch, drops, attempts, canvas, autosave, mounted >>

\* handleDelete of the details panel (person, link), of EditPersonModal and
\* of EditLinkModal: the Delete buttons of the graph view
handleDelete(c) ==
    /\ UiReady(c)
    /\ SelectedHeld(store[c])
    /\ gate' = [gate EXCEPT ![c] =
           OpenConfirmDialog(@, MessageOfSelected(store[c]), DeleteOfSelected(store[c]))]
    /\ calls' = Touch(c, calls)
    /\ Did("handleDelete", c, DeleteOfSelected(store[c]).id)
    /\ UNCHANGED << clock, faults, dbPeople, dbLinks, store, pendingOperations, socket,
                    queue, fetch, drops, attempts, canvas, autosave, mounted >>

\* ConfirmDialog handleConfirm (the Delete button of the dialog):
\* confirmDialogAction(), then closeConfirmDialog()
handleConfirm(c) ==
    /\ UiReady(c)
    /\ gate[c].isConfirmDialogOpen
    /\ LET action == gate[c].confirmDialogAction
       IN IF action.op = "deletePerson"
          THEN DeletePersonCalled(c, action.id)
          ELSE DeleteLinkCalled(c, action.id)
    /\ gate' = [gate EXCEPT ![c] = CloseConfirmDialog(@)]
    /\ UNCHANGED << attempts, canvas, autosave, mounted >>

\* the Cancel button of the dialog, and onClose of the Dialog (Escape, a
\* click outside)
closeConfirmDialog(c) ==
    /\ UiReady(c)
    /\ gate[c].isConfirmDialogOpen
    /\ gate' = [gate EXCEPT ![c] = CloseConfirmDialog(@)]
    /\ calls' = Touch(c, calls)
    /\ Did("closeConfirmDialog", c, NoId)
    /\ UNCHANGED << clock, faults, dbPeople, dbLinks, store, pendingOperations, socket,
                    queue, fetch, drops, attempts, canvas, autosave, mounted >>

\* client 1 has selected Alice
InitGate ==
    /\ clock = InitialClock
    /\ faults = 0
    /\ dbPeople = InitialPeople
    /\ dbLinks = InitialLinks
    /\ store = [c \in Clients |->
                  IF c = 1 THEN SelectPersonApply(Mounted(c), 1) ELSE Mounted(c)]
    /\ pendingOperations = [c \in Clients |-> { }]
    /\ socket = [c \in Clients |-> "connected"]
    /\ queue = [c \in Clients |-> << >>]
    /\ calls = { }
    /\ fetch = [c \in Clients |-> NoFetch]
    /\ drops = [c \in Clients |-> 0]
    /\ AuxInit
    /\ last = [act |-> "selectPerson", c |-> 1, id |-> 1, alone |-> FALSE]

\* the user interface: a delete is started by the keys and the buttons only
NextGate ==
    \/ \E c \in Clients : initializeStore(c)
    \/ \E c \in Clients : initializeStoreFetched(c)
    \/ \E c \in Clients : initializeStoreCatch(c)
    \/ \E c \in Clients : onEvent(c)
    \/ \E c \in Clients : addPerson(c)
    \/ \E c \in Clients : updatePerson(c)
    \/ \E c \in Clients : addLink(c)
    \/ \E c \in Clients : updateLink(c)
    \/ \E c \in Clients : selectPerson(c)
    \/ \E c \in Clients : selectLink(c)
    \/ \E c \in Clients : clearSelection(c)
    \/ \E c \in Clients : handleKeyDown(c)
    \/ \E c \in Clients : handleDelete(c)
    \/ \E c \in Clients : handleConfirm(c)
    \/ \E c \in Clients : closeConfirmDialog(c)
    \/ \E c \in Clients : Rejected(c)
    \/ PostPerson
    \/ PutPerson
    \/ DeletePersonRoute
    \/ PostLink
    \/ PutLink
    \/ DeleteLinkRoute
    \/ RequestFails
    \/ DeletePersonRouteFails
    \/ \E c \in Clients : GetPeople(c)
    \/ \E c \in Clients : GetLinks(c)
    \/ \E c \in Clients : FetchFails(c)

SpecGate == InitGate /\ [][NextGate]_vars

\* ------------------------------------------------------ viewport autosave
\* the time the browsers are watched, and the calls of setViewport of a
\* client
MaxTime == 5
MaxMoves == 3
\* AUTOSAVE_DELAY of utils/constants, in ticks of the browser's time
AUTOSAVE_DELAY == 2
\* the viewports onMoveEnd hands to setViewport
Viewports == { 1, 2 }

\* a faulty clearTimeout that leaves the timer in the table
ClearTimeoutKeepsTimer(timers, id) == timers

\* clearTimeout(id); no timer has the id 0
ClearTimeout(timers, id) == { t \in timers : t.id # id }

\* debouncedSaveViewport(viewport): if (saveTimeout) clearTimeout(saveTimeout);
\* saveTimeout = setTimeout(() => ..., AUTOSAVE_DELAY)
DebouncedSaveViewport(a, id, viewport) ==
    [a EXCEPT !.timers = ClearTimeout(@, a.saveTimeout) \cup
                  { [id |-> id, due |-> a.now + AUTOSAVE_DELAY, viewport |-> viewport] },
              !.saveTimeout = id]

\* a timer of the client is due: the browser runs it before anything else
TimerDue(a) == \E t \in a.timers : t.due <= a.now

\* a setViewport whose viewport is shared by every client
setViewportShared(c) ==
    /\ UiReady(c)
    /\ autosave[c].moves < MaxMoves
    /\ ~TimerDue(autosave[c])
    /\ \E viewport \in Viewports :
        autosave' = [d \in Clients |->
            IF d = c
            THEN [DebouncedSaveViewport(autosave[c], autosave[c].moves + 1, viewport) EXCEPT
                     !.viewport = viewport, !.moves = @ + 1, !.lastCall = autosave[c].now]
            ELSE [autosave[d] EXCEPT !.viewport = viewport]]
    /\ calls' = Touch(c, calls)
    /\ Did("setViewport", c, NoId)
    /\ UNCHANGED << clock, faults, dbPeople, dbLinks, store, pendingOperations, socket,
                    queue, fetch, drops, attempts, canvas, gate, mounted >>

\* setViewport(viewport), called by onMoveEnd of the canvas
setViewport(c) ==
    /\ UiReady(c)
    /\ autosave[c].moves < MaxMoves
    /\ ~TimerDue(autosave[c])
    /\ \E viewport \in Viewports :
        LET a == autosave[c]
            newBurst == a.lastCall = NoTime \/ a.now - a.lastCall >= AUTOSAVE_DELAY
        IN autosave' = [autosave EXCEPT ![c] =
               [DebouncedSaveViewport(a, a.moves + 1, viewport) EXCEPT
                   !.viewport = viewport,
                   !.moves = a.moves + 1,
                   !.lastCall = a.now,
                   !.burstCalls = IF newBurst THEN 1 ELSE @ + 1,
                   !.burstWrites = IF newBurst THEN 0 ELSE @]]
    /\ calls' = Touch(c, calls)
    /\ Did("setViewport", c, NoId)
    /\ UNCHANGED << clock, faults, dbPeople, dbLinks, store, pendingOperations, socket,
                    queue, fetch, drops, attempts, canvas, gate, mounted >>

\* the callback of setTimeout: saveToStorage(state.people, state.links,
\* viewport), with the viewport of the call that set the timer
saveTimeoutFires(c) ==
    /\ \E t \in autosave[c].timers :
        /\ t.due <= autosave[c].now
        /\ autosave' = [autosave EXCEPT ![c].timers = @ \ { t },
                                        ![c].storage = t.viewport,
                                        ![c].burstWrites = @ + 1]
    /\ calls' = Touch(c, calls)
    /\ Did("saveToStorage", c, NoId)
    /\ UNCHANGED << clock, faults, dbPeople, dbLinks, store, pendingOperations, socket,
                    queue, fetch, drops, attempts, canvas, gate, mounted >>

\* a tick of time passes in the browser of client c
tick(c) ==
    /\ autosave[c].now < MaxTime
    /\ ~TimerDue(autosave[c])
    /\ autosave' = [autosave EXCEPT ![c].now = @ + 1]
    /\ Did("tick", c, NoId)
    /\ UNCHANGED << clock, faults, dbPeople, dbLinks, store, pendingOperations, socket,
                    queue, calls, fetch, drops, attempts, canvas, gate, mounted >>

NextViewport ==
    \/ \E c \in Clients : setViewport(c)
    \/ \E c \in Clients : saveTimeoutFires(c)
    \/ \E c \in Clients : tick(c)

\* the users pan and zoom; the graph is left alone
SpecViewport == Init /\ [][NextViewport]_vars

\* ------------------------------------------------------ derived links
\* the people lists handed to the derivation: at most MaxPeople entities
MaxPeople == 3
\* undefined, and the empty string of the form
NoStream == ""
SampleStreams == { NoStream, "ML", "ml", "ml ", "nlp", "constructor" }
SampleInterests ==
    { << >>, << "nlp" >>, << "vision" >>, << "nlp", "vision" >>,
      << "vision", "nlp", "nlp" >> }
SamplePeople ==
    { [id |-> i, name |-> "P", stream |-> s, interests |-> << >>] :
          i \in 1..MaxPeople, s \in SampleStreams }
    \cup { [id |-> i, name |-> "P", stream |-> NoStream, interests |-> t] :
             i \in 1..MaxPeople, t \in SampleInterests }
DerivedInputs == UNION { [1..n -> SamplePeople] : n \in 0..MaxPeople }

\* a string of the streams as its characters
Chars(s) ==
    CASE s = "" -> << >>
      [] s = "ML" -> << "M", "L" >>
      [] s = "ml" -> << "m", "l" >>
      [] s = "ml " -> << "m", "l", " " >>
      [] s = "nlp" -> << "n", "l", "p" >>
      [] s = "constructor" -> << "c", "o", "n", "s", "t", "r", "u", "c", "t", "o", "r" >>

UpperCase ==
    << "A", "B", "C", "D", "E", "F", "G", "H", "I", "J", "K", "L", "M",
       "N", "O", "P", "Q", "R", "S", "T", "U", "V", "W", "X", "Y", "Z" >>
LowerCase ==
    << "a", "b", "c", "d", "e", "f", "g", "h", "i", "j", "k", "l", "m",
       "n", "o", "p", "q", "r", "s", "t", "u", "v", "w", "x", "y", "z" >>
\* the character of the sequence to at the place ch has in from
Mapped(ch, from, to) ==
    IF \E k \in DOMAIN from : from[k] = ch
    THEN to[CHOOSE k \in DOMAIN from : from[k] = ch]
    ELSE ch
\* String.prototype.toLowerCase, toUpperCase
ToLowerCase(s) == [i \in DOMAIN s |-> Mapped(s[i], UpperCase, LowerCase)]
ToUpperCase(s) == [i \in DOMAIN s |-> Mapped(s[i], LowerCase, UpperCase)]
\* String.prototype.trim
RECURSIVE TrimStart(_)
TrimStart(s) == IF s # << >> /\ Head(s) = " " THEN TrimStart(Tail(s)) ELSE s
RECURSIVE TrimEnd(_)
TrimEnd(s) ==
    IF s # << >> /\ s[Len(s)] = " " THEN TrimEnd(SubSeq(s, 1, Len(s) - 1)) ELSE s
Trim(s) == TrimEnd(TrimStart(s))
\* streamName.charAt(0).toUpperCase() + streamName.slice(1)
Capitalize(streamName) ==
    IF streamName = << >> THEN << >>
    ELSE ToUpperCase(<< Head(streamName) >>) \o Tail(streamName)

\* person.stream.toLowerCase().trim()
StreamKey(person) == Trim(ToLowerCase(Chars(person.stream)))

\* what streamGroups[streamKey] finds in an object literal that has no such
\* property of its own: the properties of Object.prototype whose names are
\* lower case
Inherited ==
    { << "c", "o", "n", "s", "t", "r", "u", "c", "t", "o", "r" >>,
      << "_", "_", "p", "r", "o", "t", "o", "_", "_" >> }
\* streamGroups[streamKey].push(person) on an inherited value, which is no
\* array: TypeError
PushThrows(people) ==
    \E i \in DOMAIN people :
        people[i].stream # NoStream /\ StreamKey(people[i]) \in Inherited

\* a faulty grouping that puts every person with a stream into one group
RECURSIVE GroupIgnoresStream(_, _)
GroupIgnoresStream(people, groups) ==
    IF people = << >> THEN groups
    ELSE LET person == Head(people)
         IN GroupIgnoresStream(Tail(people),
                IF person.stream = NoStream THEN groups
                ELSE IF groups = << >>
                THEN << [streamName |-> StreamKey(person), members |-> << person >>] >>
                ELSE << [groups[1] EXCEPT !.members = Append(@, person)] >>)

\* people.forEach of generateStreamLinks: the groups in the order of their
\* first member (the order of Object.entries)
RECURSIVE GroupByStream(_, _)
GroupByStream(people, groups) ==
    IF people = << >> THEN groups
    ELSE LET person == Head(people)
             streamKey == StreamKey(person)
         IN GroupByStream(Tail(people),
                IF person.stream = NoStream THEN groups
                ELSE IF \E g \in DOMAIN groups : groups[g].streamName = streamKey
                THEN [g \in DOMAIN groups |->
                        IF groups[g].streamName = streamKey
                        THEN [groups[g] EXCEPT !.members = Append(@, person)]
                        ELSE groups[g]]
                ELSE Append(groups, [streamName |-> streamKey, members |-> << person >>]))

\* the pairs << i, j >> with i < j <= n, in the order of the two for loops
RECURSIVE PairsFrom(_, _, _)
PairsFrom(i, j, n) ==
    IF i >= n THEN << >>
    ELSE IF j > n THEN PairsFrom(i + 1, i + 2, n)
    ELSE << << i, j >> >> \o PairsFrom(i, j + 1, n)
Pairs(n) == PairsFrom(1, 2, n)

RECURSIVE Flatten(_)
Flatten(ss) == IF ss = << >> THEN << >> ELSE Head(ss) \o Flatten(Tail(ss))

\* the link generateStreamLinks pushes; the id is `stream-${a}-${b}`
StreamLink(a, b, description) ==
    [ id |-> << "stream", a, b >>, sourceId |-> a, targetId |-> b,
      description |-> description, type |-> "stream", createdAt |-> "", updatedAt |-> "" ]

\* Canvas.tsx generateStreamLinks(people), when no push throws
generateStreamLinks(people) ==
    LET streamGroups == GroupByStream(people, << >>)
        GroupLinks(g) ==
            LET members == streamGroups[g].members
                pairs == Pairs(Len(members))
            IN [p \in DOMAIN pairs |->
                   StreamLink(members[pairs[p][1]].id, members[pairs[p][2]].id,
                              Capitalize(streamGroups[g].streamName))]
    IN Flatten([g \in DOMAIN streamGroups |-> GroupLinks(g)])

\* DetailsPanel.tsx getStreamLinksForPerson(personId, people)
getStreamLinksForPerson(personId, people) ==
    IF ~Has(people, personId) \/ Find(people, personId).stream = NoStream THEN << >>
    ELSE LET person == Find(people, personId)
             others == SelectSeq(people, LAMBDA other :
                           /\ other.id # personId
                           /\ other.stream # NoStream
                           /\ StreamKey(other) = StreamKey(person))
         IN [o \in DOMAIN others |->
                StreamLink(personId, others[o].id, Chars(person.stream))]

\* the strings of the ids and of the interests in the order of their code
\* units, which is the order of Array.prototype.sort
CodeUnitOrder == << "1", "2", "3", "4", "5", "6", "7", "8", "9", "nlp", "vision" >>
Rank(s) == CHOOSE i \in DOMAIN CodeUnitOrder : CodeUnitOrder[i] = s
RECURSIVE Sort(_)
Sort(s) ==
    IF s = << >> THEN << >>
    ELSE LET least == CHOOSE i \in DOMAIN s : \A j \in DOMAIN s : Rank(s[i]) <= Rank(s[j])
         IN << s[least] >> \o Sort([k \in 1..(Len(s) - 1) |-> IF k < least THEN s[k] ELSE s[k + 1]])
\* [person1.id, person2.id, interest].sort().join('-'); none of the strings
\* holds a '-', so the joined string is the sorted list
PairKey(id1, id2, interest) == Sort(<< ToString(id1), ToString(id2), interest >>)

Includes(list, x) == \E i \in DOMAIN list : list[i] = x

\* the link generateInterestLinks pushes; the id is
\* `interest-${a}-${b}-${interest}`
InterestLink(a, b, interest) ==
    [ id |-> << "interest", a, b, interest >>, sourceId |-> a, targetId |-> b,
      description |-> interest, type |-> "interest", createdAt |-> "", updatedAt |-> "" ]

\* sharedInterests.forEach: one link for a pairKey not seen before
RECURSIVE PushShared(_, _, _, _)
PushShared(acc, id1, id2, sharedInterests) ==
    IF sharedInterests = << >> THEN acc
    ELSE LET interest == Head(sharedInterests)
             pairKey == PairKey(id1, id2, interest)
         IN PushShared(
                IF pairKey \in acc.seenPairs THEN acc
                ELSE [ interestLinks |-> Append(acc.interestLinks,
                                                InterestLink(id1, id2, interest)),
                       seenPairs |-> acc.seenPairs \cup { pairKey } ],
                id1, id2, Tail(sharedInterests))

\* person1.interests.filter((interest) => person2.interests.includes(interest))
SharedInterests(person1, person2) ==
    SelectSeq(person1.interests, LAMBDA interest : Includes(person2.interests, interest))

\* the two for loops of generateInterestLinks
RECURSIVE ForPairs(_, _, _)
ForPairs(acc, people, pairs) ==
    IF pairs = << >> THEN acc
    ELSE LET person1 == people[Head(pairs)[1]]
             person2 == people[Head(pairs)[2]]
         IN ForPairs(
                IF person1.interests = << >> \/ person2.interests = << >> THEN acc
                ELSE PushShared(acc, person1.id, person2.id,
                                SharedInterests(person1, person2)),
                people, Tail(pairs))

\* Canvas.tsx generateInterestLinks(people)
generateInterestLinks(people) ==
    ForPairs([interestLinks |-> << >>, seenPairs |-> { }], people,
             Pairs(Len(people))).interestLinks

\* people.forEach of getInterestLinksForPerson
RECURSIVE ForOthers(_, _, _)
ForOthers(acc, person, others) ==
    IF others = << >> THEN acc
    ELSE LET other == Head(others)
         IN ForOthers(
                IF other.id = person.id \/ other.interests = << >> THEN acc
                ELSE PushShared(acc, person.id, other.id, SharedInterests(person, other)),
                person, Tail(others))

\* DetailsPanel.tsx getInterestLinksForPerson(personId, people)
getInterestLinksForPerson(personId, people) ==
    IF ~Has(people, personId) \/ Find(people, personId).interests = << >> THEN << >>
    ELSE ForOthers([interestLinks |-> << >>, seenPairs |-> { }],
                   Find(people, personId), people).interestLinks

\* the canvas is rendered for a people list: the two useMemo of Canvas
renderCanvas ==
    /\ ~canvas.rendered
    /\ canvas' = [canvas EXCEPT
           !.rendered = TRUE,
           !.threw = PushThrows(canvas.people),
           !.streamLinks =
               IF PushThrows(canvas.people) THEN << >>
               ELSE generateStreamLinks(canvas.people),
           !.interestLinks =
               IF PushThrows(canvas.people) THEN << >>
               ELSE generateInterestLinks(canvas.people)]
    /\ Did("renderCanvas", 0, NoId)
    /\ UNCHANGED << clock, faults, dbPeople, dbLinks, store, pendingOperations, socket,
                    queue, calls, fetch, drops, attempts, gate, autosave, mounted >>

\* the details panel is rendered for a selected person
renderPanel ==
    /\ canvas.personId = NoId
    /\ \E personId \in Ids(canvas.people) :
        /\ canvas' = [canvas EXCEPT
               !.personId = personId,
               !.panelStreamLinks = getStreamLinksForPerson(personId, canvas.people),
               !.panelInterestLinks = getInterestLinksForPerson(personId, canvas.people)]
        /\ Did("renderPanel", 0, personId)
    /\ UNCHANGED << clock, faults, dbPeople, dbLinks, store, pendingOperations, socket,
                    queue, calls, fetch, drops, attempts, gate, autosave, mounted >>

\* the derivation is handed any list of the sample people
InitDerive ==
    /\ clock = InitialClock
    /\ faults = 0
    /\ dbPeople = InitialPeople
    /\ dbLinks = InitialLinks
    /\ store = [c \in Clients |-> Mounted(c)]
    /\ pendingOperations = [c \in Clients |-> { }]
    /\ socket = [c \in Clients |-> "connected"]
    /\ queue = [c \in Clients |-> << >>]
    /\ calls = { }
    /\ fetch = [c \in Clients |-> NoFetch]
    /\ drops = [c \in Clients |-> 0]
    /\ attempts = [c \in Clients |-> 0]
    /\ canvas \in { [NoCanvas EXCEPT !.people = people] : people \in DerivedInputs }
    /\ gate = [c \in Clients |-> NoGate]
    /\ autosave = [c \in Clients |-> NoAutosave]
    /\ mounted = [c \in Clients |-> TRUE]
    /\ last = [act |-> "init", c |-> 0, id |-> NoId, alone |-> FALSE]

NextDerive ==
    \/ renderCanvas
    \/ renderPanel

SpecDerive == InitDerive /\ [][NextDerive]_vars

\* ------------------------------------ the routes, statement by statement
\* Between two awaits of a route the server handles other requests: here a
\* route takes one step per db.execute, and the requests are whatever an HTTP
\* client sends, not only what the store sends.
MaxRequests == 3
MissingId == 9
RequestIds == { NoId, 1, MissingId }

\* a database that does not enforce its foreign keys
ForeignKeysOff(people, link) == TRUE

\* FOREIGN KEY (source_id) REFERENCES people(id), FOREIGN KEY (target_id)
\* REFERENCES people(id): what the database checks on INSERT and UPDATE
ForeignKeysHold(people, link) ==
    Has(people, link.sourceId) /\ Has(people, link.targetId)

\* the call k of the route, at its next statement
At(k, st) == (calls \ { k }) \cup { [k EXCEPT !.st = st] }

\* express hands a request to its route
Request(c) ==
    /\ clock < InitialClock + MaxRequests
    /\ \E sourceId \in RequestIds, personId \in Ids(InitialPeople) :
        LET now == clock + 1
            body(id) == [ id |-> id, sourceId |-> sourceId, targetId |-> 2,
                          description |-> NewLinkDescription,
                          createdAt |-> now, updatedAt |-> now ]
            req(kind, op, id, b) ==
                /\ calls' = calls \cup
                       { Call(now, c, kind, op, id, b, << >>, << >>, store[c]) }
                /\ Did("Request", c, id)
        IN \/ req("link", "create", 4, << body(4) >>)
           \/ req("link", "update", 3, << body(3) >>)
           \/ req("person", "delete", personId, << >>)
           \/ req("person", "create", personId, << Find(InitialPeople, personId) >>)
    /\ clock' = clock + 1
    /\ UNCHANGED << faults, dbPeople, dbLinks, store, pendingOperations, socket, queue,
                    fetch, drops, aux >>

\* POST /api/links up to its INSERT: the 400 of a missing field and the two
\* SELECTs that verify source and target
PostLinkVerify ==
    \E k \in calls :
        /\ Sent(k, "link", "create")
        /\ LET link == BodyLink(k.body[1], k.body[1].createdAt)
           IN IF \/ link.id = NoId \/ link.sourceId = NoId \/ link.targetId = NoId
                 \/ ~EndpointsExist(dbPeople, link)
              THEN calls' = Thrown(k)
              ELSE calls' = At(k, "verified")
        /\ Did("PostLinkVerify", k.c, k.id)
        /\ UNCHANGED << clock, faults, dbPeople, dbLinks, store, pendingOperations, socket,
                        queue, fetch, drops, aux >>

\* POST /api/links from its INSERT on: a violated constraint throws (500)
PostLinkInsert ==
    \E k \in calls :
        /\ k.st = "verified"
        /\ LET link == BodyLink(k.body[1], k.body[1].createdAt)
           IN IF ~ForeignKeysHold(dbPeople, link) \/ Has(dbLinks, link.id)
              THEN /\ calls' = Thrown(k)
                   /\ UNCHANGED << dbLinks, queue >>
              ELSE /\ dbLinks' = Append(dbLinks, link)
                   /\ queue' = Emit(queue, << Event("link", "created", link) >>)
                   /\ calls' = Returned(k)
        /\ Did("PostLinkInsert", k.c, k.id)
        /\ UNCHANGED << clock, faults, dbPeople, store, pendingOperations, socket, fetch,
                        drops, aux >>

\* PUT /api/links/:id up to its UPDATE: the SELECT of the existing row
PutLinkSelect ==
    \E k \in calls :
        /\ Sent(k, "link", "update")
        /\ IF ~Has(dbLinks, k.id)
           THEN calls' = Thrown(k)
           ELSE calls' = (calls \ { k }) \cup
                    { [k EXCEPT !.st = "found", !.existing = << Find(dbLinks, k.id) >>] }
        /\ Did("PutLinkSelect", k.c, k.id)
        /\ UNCHANGED << clock, faults, dbPeople, dbLinks, store, pendingOperations, socket,
                        queue, fetch, drops, aux >>

\* PUT /api/links/:id from its UPDATE on: a violated foreign key throws (500);
\* an UPDATE that finds no row changes nothing and the route goes on
PutLinkUpdate ==
    \E k \in calls :
        /\ k.st = "found" /\ k.kind = "link"
        /\ LET link == BodyLink(k.body[1], k.existing[1].createdAt)
           IN IF Has(dbLinks, k.id) /\ ~ForeignKeysHold(dbPeople, link)
              THEN /\ calls' = Thrown(k)
                   /\ UNCHANGED << dbLinks, queue >>
              ELSE /\ dbLinks' = Replace(dbLinks, k.id, link)
                   /\ queue' = Emit(queue, << Event("link", "updated", link) >>)
                   /\ calls' = Returned(k)
        /\ Did("PutLinkUpdate", k.c, k.id)
        /\ UNCHANGED << clock, faults, dbPeople, store, pendingOperations, socket, fetch,
                        drops, aux >>

\* DELETE /api/people/:id up to the SELECT of its links
DeletePersonSelect ==
    \E k \in calls :
        /\ Sent(k, "person", "delete")
        /\ IF ~Has(dbPeople, k.id)
           THEN calls' = Thrown(k)
           ELSE calls' = At(k, "found")
        /\ Did("DeletePersonSelect", k.c, k.id)
        /\ UNCHANGED << clock, faults, dbPeople, dbLinks, store, pendingOperations, socket,
                        queue, fetch, drops, aux >>

\* DELETE /api/people/:id: the SELECT of the links and the link:deleted
\* events of the rows it returned
DeletePersonLinks ==
    \E k \in calls :
        /\ k.st = "found" /\ k.kind = "person"
        /\ queue' = Emit(queue, LinkDeletedEvents(k.id))
        /\ calls' = At(k, "emitted")
        /\ Did("DeletePersonLinks", k.c, k.id)
        /\ UNCHANGED << clock, faults, dbPeople, dbLinks, store, pendingOperations, socket,
                        fetch, drops, aux >>

\* DELETE /api/people/:id from its DELETE on: ON DELETE CASCADE removes
\* the rows of links that reference the person now
DeletePersonDelete ==
    \E k \in calls :
        /\ k.st = "emitted"
        /\ dbPeople' = Without(dbPeople, k.id)
        /\ dbLinks' = WithoutEndpoint(dbLinks, k.id)
        /\ queue' = Emit(queue, << Event("person", "deleted", [id |-> k.id]) >>)
        /\ calls' = Returned(k)
        /\ Did("DeletePersonDelete", k.c, k.id)
        /\ UNCHANGED << clock, faults, store, pendingOperations, socket, fetch, drops, aux >>

NextServer ==
    \/ \E c \in Clients : Request(c)
    \/ PostLinkVerify
    \/ PostLinkInsert
    \/ PutLinkSelect
    \/ PutLinkUpdate
    \/ DeletePersonSelect
    \/ DeletePersonLinks
    \/ DeletePersonDelete
    \/ PostPerson

\* the server under the requests of any HTTP clients
SpecServer == Init /\ [][NextServer]_vars

\* --------------------------------------------------------------- claims
\* every REST call has resolved, and every event emitted to client c, which
\* never lost its connection, has been delivered
Settled(c) ==
    /\ calls = { }
    /\ \A d \in Clients : ~fetch[d].active
    /\ ~store[c].isLoading
    /\ socket[c] = "connected" /\ drops[c] = 0
    /\ queue[c] = << >>

\* C1: once every REST call has resolved and every broadcast event has been
\* delivered to a client that stayed connected, the client's people and links
\* are exactly the records the server holds.
C1_MirrorsServer ==
    \A c \in Clients :
        Settled(c) =>
            /\ Range(store[c].people) = Range(dbPeople)
            /\ Range(store[c].links) = Range(dbLinks)

\* C1 in the runs in which no request was failed by the database or the
\* network: every answer is the one the route gives to the request.
C1_MirrorsServerNoFault == faults = 0 => C1_MirrorsServer

\* the step is the catch block of the call k
RejectedStep(k) ==
    /\ k \in calls /\ k.st = "fail"
    /\ \A j \in calls' : j.n # k.n

\* the records of a collection other than the one with this id
Others(s, id) == { r \in Range(s) : r.id # id }

\* C2: when the remote create of a person or link fails, then after the catch
\* block the created record is absent from local state, its create marker is
\* not pending, error is set, and every other local record is unchanged.
C2_CreateRollback ==
    [][ \A k \in calls :
          (RejectedStep(k) /\ k.op = "create") =>
              /\ ~Has(store'[k.c].people, k.id)
              /\ ~Has(store'[k.c].links, k.id)
              /\ Marker(k.kind, "create", k.id) \notin pendingOperations'[k.c]
              /\ store'[k.c].error # NoError
              /\ Others(store'[k.c].people, k.id) = Others(store[k.c].people, k.id)
              /\ Others(store'[k.c].links, k.id) = Others(store[k.c].links, k.id)
      ]_vars

\* a create was rejected and rolled back while the client held other records
C2_Witness ==
    /\ last.act = "rejected"
    /\ last.id > InitialClock
    /\ store[last.c].error \in { "Failed to save person", "Failed to save link" }
    /\ store[last.c].people # << >>

\* the step is a socket handler of client c receiving the head of its queue
EventStep(c) ==
    /\ last'.act \in { "onEvent", "onEvent:echo" } /\ last'.c = c
    /\ queue[c] # << >>

\* C3: when an event arrives whose marker is pending, the handler removes
\* exactly that marker and leaves people, links and selection unchanged.
C3_EchoDiscarded ==
    [][ \A c \in Clients :
          (EventStep(c) /\ EventMarker(Head(queue[c])) \in pendingOperations[c]) =>
              /\ pendingOperations'[c] = pendingOperations[c] \ { EventMarker(Head(queue[c])) }
              /\ Snap(store'[c]) = Snap(store[c])
      ]_vars

\* an echo was discarded by a client that had changed the record again
\* since the request the echo answers
C3_Witness ==
    /\ last.act = "onEvent:echo"
    /\ \E k \in calls : k.c = last.c /\ k.id = last.id /\ k.op = "update"


NoTwoShareId(s) == \A i, j \in DOMAIN s : s[i].id = s[j].id => i = j

\* C4: in every reachable client state no two records of people share an id
\* and no two records of links share an id.
C4_UniqueIds ==
    \A c \in Clients :
        /\ NoTwoShareId(store[c].people)
        /\ NoTwoShareId(store[c].links)

\* the step is the store action act of client c, called with an id it holds
CallStep(act, c, id) ==
    /\ last'.act = act /\ last'.c = c /\ last'.id = id
    /\ clock' = clock + 1

\* C5: deletePerson(id) on a person held locally removes, in the one step,
\* the person and every local link with id as sourceId or targetId, and
\* clears selectedPersonId when it was id.
C5_CascadingDelete ==
    [][ \A c \in Clients : \A id \in PersonArgs(c) :
          (CallStep("deletePerson", c, id) /\ Has(store[c].people, id)) =>
              /\ ~Has(store'[c].people, id)
              /\ \A l \in Range(store'[c].links) : l.sourceId # id /\ l.targetId # id
              /\ store[c].selectedPersonId = id => store'[c].selectedPersonId = NoId
      ]_vars

\* the selected person, an endpoint of a link, has just been deleted
C5_Witness ==
    /\ last.act = "deletePerson"
    /\ \E k \in calls :
        /\ k.n = clock /\ k.c = last.c /\ k.id = last.id
        /\ k.existingLinks # << >>
        /\ k.snap.selectedPersonId = k.id

\* C6: when the remote delete fails, the captured person and every captured
\* link (or the captured link, for deleteLink) are in local state again with
\* the same field values, every marker the delete added is removed, and error
\* is set.
C6_DeleteRollback ==
    [][ \A k \in calls :
          (RejectedStep(k) /\ k.op = "delete") =>
              /\ k.kind = "person" =>
                    /\ k.existing[1] \in Range(store'[k.c].people)
                    /\ Range(k.existingLinks) \subseteq Range(store'[k.c].links)
              /\ k.kind = "link" => k.existing[1] \in Range(store'[k.c].links)
              /\ CallMarkers(k.kind, k.op, k.id, k.existingLinks)
                     \cap pendingOperations'[k.c] = { }
              /\ store'[k.c].error # NoError
      ]_vars

\* the delete of a person with a link was rejected and rolled back
C6_Witness ==
    /\ last.act = "rejected"
    /\ store[last.c].error = "Failed to delete person"
    /\ \E l \in Range(store[last.c].links) : l.sourceId = last.id \/ l.targetId = last.id

\* C7: after a failed create, update or delete with no other operation or
\* event in between, people, links and selection, as stored, are what they
\* were immediately before the operation was invoked.
C7_ExactRollback ==
    [][ \A k \in calls :
          (RejectedStep(k) /\ k.alone) => Snap(store'[k.c]) = k.snap
      ]_vars

\* C8: when the remote update of an id fails while the record is still held
\* locally, the local record of that id becomes the record captured before
\* the update, the update marker is removed, error is set, and all other
\* records are unchanged.
C8_UpdateRollback ==
    [][ \A k \in calls :
          (RejectedStep(k) /\ k.op = "update") =>
              LET before == IF k.kind = "person" THEN store[k.c].people ELSE store[k.c].links
                  after == IF k.kind = "person" THEN store'[k.c].people ELSE store'[k.c].links
              IN /\ Has(before, k.id) =>
                       \A r \in Range(after) : r.id = k.id => r = k.existing[1]
                 /\ Has(before, k.id) <=> Has(after, k.id)
                 /\ Marker(k.kind, "update", k.id) \notin pendingOperations'[k.c]
                 /\ store'[k.c].error # NoError
                 /\ Others(store'[k.c].people, k.id) = Others(store[k.c].people, k.id)
                 /\ Others(store'[k.c].links, k.id) = Others(store[k.c].links, k.id)
      ]_vars

\* an update was rejected while the record was held, and it is held as it
\* was before the update
C8_Witness ==
    /\ last.act = "rejected"
    /\ store[last.c].error \in { "Failed to update person", "Failed to update link" }
    /\ Has(store[last.c].people, last.id) \/ Has(store[last.c].links, last.id)

\* C9: updatePerson, updateLink, deletePerson and deleteLink called with an
\* id that is not in local state change nothing: the store (people, links,
\* selection, error), the pending set and the calls in flight are unchanged.
C9_AbsentIdNoOp ==
    [][ \A c \in Clients :
          /\ \A id \in PersonArgs(c) :
                ( /\ CallStep("updatePerson", c, id) \/ CallStep("deletePerson", c, id)
                  /\ ~Has(store[c].people, id) ) =>
                    /\ store'[c] = store[c]
                    /\ pendingOperations'[c] = pendingOperations[c]
                    /\ calls' = calls
          /\ \A id \in LinkArgs(c) :
                ( /\ CallStep("updateLink", c, id) \/ CallStep("deleteLink", c, id)
                  /\ ~Has(store[c].links, id) ) =>
                    /\ store'[c] = store[c]
                    /\ pendingOperations'[c] = pendingOperations[c]
                    /\ calls' = calls
      ]_vars

\* update or delete was just called with an id the client does not hold:
\* no call was issued
C9_Witness ==
    /\ last.act \in { "updatePerson", "deletePerson", "updateLink", "deleteLink" }
    /\ ~Has(store[last.c].people, last.id) /\ ~Has(store[last.c].links, last.id)
    /\ \A k \in calls : k.n # clock

\* the step is POST /api/links answering the call k
PostLinkStep(k) ==
    /\ k \in calls /\ Sent(k, "link", "create")
    /\ last'.act = "PostLink" /\ last'.id = k.id

\* C10: addLink whose sourceId or targetId is not the id of a person held by
\* the server is rejected by the server (no row stored, no event emitted),
\* and when the client has handled the rejection, with no other operation or
\* event in between, its links are what they were before addLink.
C10_DanglingLinkRejected ==
    [][ \A k \in calls :
          /\ ( /\ PostLinkStep(k)
               /\ ~Has(dbPeople, k.body[1].sourceId) \/ ~Has(dbPeople, k.body[1].targetId) ) =>
                  /\ dbLinks' = dbLinks
                  /\ queue' = queue
                  /\ [k EXCEPT !.st = "fail"] \in calls'
          /\ ( /\ RejectedStep(k) /\ k.alone
               /\ k.kind = "link" /\ k.op = "create" ) =>
                  store'[k.c].links = k.snap.links
      ]_vars

\* the server rejected a link to a person it does not hold, and the client
\* rolled back with nothing in between
C10_Witness ==
    /\ last.act = "rejected" /\ last.alone
    /\ faults = 0
    /\ store[last.c].error = "Failed to save link"

\* the step issues the call k
IssuedStep(k) == k \in calls' /\ \A j \in calls : j.n # k.n

\* the local collection a call or an event is about
Collection(st, kind) == IF kind = "person" THEN st.people ELSE st.links

\* the mutation of the call k is in the state st
Optimistic(st, k) ==
    CASE k.op = "create" -> k.body[1] \in Range(Collection(st, k.kind))
      [] k.op = "update" ->
            /\ Has(Collection(st, k.kind), k.id)
            /\ \A r \in Range(Collection(st, k.kind)) : r.id = k.id => r = k.body[1]
      [] k.op = "delete" ->
            /\ ~Has(Collection(st, k.kind), k.id)
            /\ k.kind = "person" =>
                  \A l \in Range(st.links) : l.sourceId # k.id /\ l.targetId # k.id

\* C11: the step in which a create, update or delete is invoked applies its
\* mutation to local state and adds its pending marker, and leaves the
\* request unanswered: the server's rows, the events and error are as
\* before, so the answer is processed in a later step and the optimistic
\* state is observable before it.
C11_OptimisticFirst ==
    [][ \A k \in calls' :
          IssuedStep(k) =>
              /\ Optimistic(store'[k.c], k)
              /\ CallMarkers(k.kind, k.op, k.id, k.existingLinks)
                     \subseteq pendingOperations'[k.c]
              /\ k.st = "sent"
              /\ dbPeople' = dbPeople /\ dbLinks' = dbLinks /\ queue' = queue
              /\ store'[k.c].error = store[k.c].error
      ]_vars

\* a created person is shown by its client while the server has neither
\* stored it nor answered
C11_Witness ==
    /\ last.act = "addPerson"
    /\ \E k \in calls :
        /\ k.n = clock /\ k.st = "sent" /\ k.id = last.id /\ k.c = last.c
        /\ Has(store[k.c].people, k.id)
        /\ ~Has(dbPeople, k.id)
        /\ Marker("person", "create", k.id) \in pendingOperations[k.c]

\* the step is a socket handler of client c applying the event at the head
\* of its queue (its marker is not pending)
AppliedStep(c, kind, op) ==
    /\ EventStep(c)
    /\ Head(queue[c]).kind = kind /\ Head(queue[c]).op = op
    /\ EventMarker(Head(queue[c])) \notin pendingOperations[c]

\* C12: an updated event that is not suppressed replaces the local record of
\* the same id by the event's record in full, leaves every other record
\* unchanged, and inserts nothing when the id is not held locally.
C12_UpdatedReplaces ==
    [][ \A c \in Clients : \A kind \in { "person", "link" } :
          AppliedStep(c, kind, "updated") =>
              LET ev == Head(queue[c])
                  before == Collection(store[c], kind)
                  after == Collection(store'[c], kind)
              IN /\ \A r \in Range(after) : r.id = ev.payload.id => r = ev.payload
                 /\ Has(after, ev.payload.id) <=> Has(before, ev.payload.id)
                 /\ Len(after) = Len(before)
                 /\ Others(store'[c].people, ev.payload.id) = Others(store[c].people, ev.payload.id)
                 /\ Others(store'[c].links, ev.payload.id) = Others(store[c].links, ev.payload.id)
      ]_vars

\* a client that has no call of its own holds, after a handler, one of the
\* first persons as another client's update left it on the server
C12_Witness ==
    /\ last.act = "onEvent"
    /\ last.id \in Ids(InitialPeople)
    /\ \A k \in calls : k.c # last.c
    /\ Has(store[last.c].people, last.id) /\ Has(dbPeople, last.id)
    /\ Find(store[last.c].people, last.id) = Find(dbPeople, last.id)
    /\ Find(dbPeople, last.id).updatedAt > InitialClock
    /\ Find(dbPeople, last.id).name = "Bo"

\* the links of a collection that do not end in the person id
NotEndingIn(s, id) == { l \in Range(s) : l.sourceId # id /\ l.targetId # id }

\* C13: a person:deleted event that is not suppressed removes the person of
\* that id and every local link with that id as sourceId or targetId, and
\* nothing else; a link:deleted event that is not suppressed removes that
\* link only; when the id is not held locally, link:deleted leaves people
\* and links as they are, and person:deleted leaves people as it is and
\* still removes the links that end in the id.
C13_DeletedRemoves ==
    [][ \A c \in Clients :
          /\ AppliedStep(c, "person", "deleted") =>
                LET id == Head(queue[c]).payload.id
                IN /\ ~Has(store'[c].people, id)
                   /\ Others(store'[c].people, id) = Others(store[c].people, id)
                   /\ Range(store'[c].links) = NotEndingIn(store[c].links, id)
                   /\ ~Has(store[c].people, id) => store'[c].people = store[c].people
                   /\ ( /\ ~Has(store[c].people, id)
                        /\ WithEndpoint(store[c].links, id) = << >> ) =>
                          store'[c].links = store[c].links
          /\ AppliedStep(c, "link", "deleted") =>
                LET id == Head(queue[c]).payload.id
                IN /\ ~Has(store'[c].links, id)
                   /\ Others(store'[c].links, id) = Others(store[c].links, id)
                   /\ store'[c].people = store[c].people
                   /\ ~Has(store[c].links, id) => store'[c].links = store[c].links
      ]_vars

\* C13 as stated: a deleted event that is not suppressed and whose id is not
\* held locally leaves people and links as they are, for persons and links
\* alike.
C13_AbsentIdNoOp ==
    [][ \A c \in Clients : \A kind \in { "person", "link" } :
          ( /\ AppliedStep(c, kind, "deleted")
            /\ ~Has(Collection(store[c], kind), Head(queue[c]).payload.id) ) =>
              /\ store'[c].people = store[c].people
              /\ store'[c].links = store[c].links
      ]_vars

\* the only operation so far was another client's deletePerson of a person
\* with a link; this client's handler has removed the person and the link
C13_Witness ==
    /\ last.act = "onEvent"
    /\ clock = InitialClock + 1
    /\ last.id \in Ids(InitialPeople)
    /\ WithEndpoint(InitialLinks, last.id) # << >>
    /\ ~Has(dbPeople, last.id)
    /\ ~Has(store[last.c].people, last.id)
    /\ store[last.c].links = << >>

\* the step is a delete at client c: its deletePerson or deleteLink, or a
\* socket handler applying a deleted event
DeleteStep(c) ==
    \/ last'.c = c /\ last'.act \in { "deletePerson", "deleteLink" }
    \/ AppliedStep(c, "person", "deleted")
    \/ AppliedStep(c, "link", "deleted")

\* the step removes the selected person or the selected link of client c
SelectedRemoved(c) ==
    \/ /\ store[c].selectedPersonId # NoId
       /\ Has(store[c].people, store[c].selectedPersonId)
       /\ ~Has(store'[c].people, store[c].selectedPersonId)
    \/ /\ store[c].selectedLinkId # NoId
       /\ Has(store[c].links, store[c].selectedLinkId)
       /\ ~Has(store'[c].links, store[c].selectedLinkId)

\* C14: whenever a delete, local or remote, removes the selected person or
\* the selected link from local state (a link removed with one of its
\* endpoint persons included), selectedPersonId and selectedLinkId are both
\* null afterwards.
C14_SelectionCleared ==
    [][ \A c \in Clients :
          (DeleteStep(c) /\ SelectedRemoved(c)) =>
              /\ store'[c].selectedPersonId = NoId
              /\ store'[c].selectedLinkId = NoId
      ]_vars

AtMostOneSelected(st) == st.selectedPersonId = NoId \/ st.selectedLinkId = NoId

\* C15: in every reachable state at most one of selectedPersonId and
\* selectedLinkId is non-null; a selectPerson step leaves selectedLinkId
\* null and a selectLink step leaves selectedPersonId null; clearSelection
\* applied to its own result changes nothing.
C15_OneSelection ==
    /\ [](\A c \in Clients :
            /\ AtMostOneSelected(store[c])
            /\ ClearSelectionApply(ClearSelectionApply(store[c])) = ClearSelectionApply(store[c]))
    /\ [][ \A c \in Clients :
             /\ (last'.c = c /\ last'.act = "selectPerson") =>
                   /\ store'[c].selectedPersonId = last'.id
                   /\ store'[c].selectedLinkId = NoId
             /\ (last'.c = c /\ last'.act = "selectLink") =>
                   /\ store'[c].selectedLinkId = last'.id
                   /\ store'[c].selectedPersonId = NoId
             /\ (last'.c = c /\ last'.act = "clearSelection") =>
                   /\ store'[c].selectedPersonId = NoId
                   /\ store'[c].selectedLinkId = NoId
                   /\ store'[c] = ClearSelectionApply(store'[c])
         ]_vars

\* a person has just been selected, as the second selection made
C15_Witness ==
    /\ last.act = "selectPerson"
    /\ clock = InitialClock + MaxOps
    /\ store[last.c].selectedPersonId = last.id
    /\ store[last.c].selectedLinkId = NoId
    /\ calls = { }
    /\ \A c \in Clients : pendingOperations[c] = { }

\* C16: for a client that stayed connected, once every REST call has
\* resolved and every event emitted to it has been delivered, its pending
\* set is empty: every marker that was added has been removed.
C16_MarkersDrain ==
    \A c \in Clients : Settled(c) => pendingOperations[c] = { }

\* C16 in the runs in which no request was failed by the database or the
\* network.
C16_MarkersDrainNoFault == faults = 0 => C16_MarkersDrain

\* the step takes the marker mk out of the pending set of client c
MarkerRemoved(c, mk) == mk \in pendingOperations[c] /\ mk \notin pendingOperations'[c]

\* C17: a marker leaves the pending set only in a socket handler given an
\* event of the marker's kind, operation and id, or in the catch block of a
\* call that added it, never when a route answers with success; and while
\* the marker is pending, an event with its kind, operation and id, also one
\* caused by another client, is discarded: the handler changes nothing but
\* the pending set.
C17_MarkerOnlyByEventOrFailure ==
    [][ \A c \in Clients :
          /\ \A mk \in pendingOperations[c] :
                MarkerRemoved(c, mk) =>
                    \/ EventStep(c) /\ mk = EventMarker(Head(queue[c]))
                    \/ \E k \in calls :
                          /\ RejectedStep(k) /\ k.c = c
                          /\ mk \in CallMarkers(k.kind, k.op, k.id, k.existingLinks)
          /\ (EventStep(c) /\ EventMarker(Head(queue[c])) \in pendingOperations[c]) =>
                store'[c] = store[c]
      ]_vars

\* the echo of this client's update was lost with its connection; after the
\* call had succeeded, the socket handler discarded the updated event of
\* another client's later update, and the client still shows its own value
C17_Witness ==
    /\ last.act = "onEvent:echo"
    /\ drops[last.c] > 0
    /\ calls = { }
    /\ Has(dbPeople, last.id) /\ Has(store[last.c].people, last.id)
    /\ Find(dbPeople, last.id).updatedAt = clock
    /\ Find(store[last.c].people, last.id).updatedAt = clock - 1

\* the step is the handler act of client c
HandlerStep(act, c) == last'.act = act /\ last'.c = c

\* C18: when the bootstrap fetch succeeds, people and links become exactly
\* the fetched collections (nothing of the cached state survives), isLoading
\* becomes false, and a client without a socket opens it in that step; the
\* socket is opened in no other step, so never before or without a
\* successful fetch.
C18_BootstrapReplaces ==
    [][ \A c \in Clients :
          /\ HandlerStep("initializeStoreFetched", c) =>
                /\ fetch[c].active /\ ~fetch[c].failed
                /\ store'[c].people = fetch[c].people[1]
                /\ store'[c].links = fetch[c].links[1]
                /\ ~store'[c].isLoading
                /\ socket[c] = "null" => socket'[c] = "connecting"
          /\ (socket[c] = "null" /\ socket'[c] # "null") =>
                HandlerStep("initializeStoreFetched", c)
          /\ socket[c] = "null" => queue[c] = << >> /\ ~store[c].isConnected
      ]_vars

\* the client that started with a cached copy has fetched: the stale record
\* is gone, the fetched one is shown, and the socket is being opened
C18_Witness ==
    /\ last.act = "initializeStoreFetched"
    /\ CachedPeople(last.c) # << >>
    /\ socket[last.c] = "connecting"
    /\ ~store[last.c].isLoading
    /\ \A i \in DOMAIN CachedPeople(last.c) :
          CachedPeople(last.c)[i] \notin Range(store[last.c].people)
    /\ Range(store[last.c].people) = Range(dbPeople)
    /\ Range(store[last.c].links) = Range(dbLinks)

\* C19: when the bootstrap fetch fails, the catch block sets error, resets
\* isLoading, opens no socket and leaves people and links as they are (for
\* a client without a socket: as they were cached); invoking initializeStore
\* again clears error, sets isLoading and starts a new fetch.
C19_BootstrapFailure ==
    [][ \A c \in Clients :
          /\ HandlerStep("initializeStoreCatch", c) =>
                /\ fetch[c].active /\ fetch[c].failed
                /\ store'[c].error # NoError
                /\ ~store'[c].isLoading
                /\ socket'[c] = socket[c]
                /\ store'[c].people = store[c].people
                /\ store'[c].links = store[c].links
                /\ socket[c] = "null" =>
                      /\ store'[c].people = CachedPeople(c)
                      /\ store'[c].links = CachedLinks(c)
          /\ HandlerStep("initializeStore", c) =>
                /\ store'[c].error = NoError
                /\ store'[c].isLoading
                /\ ~fetch[c].active /\ fetch'[c].active /\ ~fetch'[c].failed
                /\ fetch'[c].people = << >> /\ fetch'[c].links = << >>
                /\ store'[c].people = store[c].people
                /\ store'[c].links = store[c].links
      ]_vars

\* the first fetch of a client failed: it shows the error, holds its cached
\* records and has no socket
C19_Witness ==
    /\ last.act = "initializeStoreCatch"
    /\ socket[last.c] = "null"
    /\ store[last.c].error = "Failed to fetch"
    /\ ~store[last.c].isLoading
    /\ store[last.c].people = CachedPeople(last.c)
    /\ CachedPeople(last.c) # << >>
    /\ ~fetch[last.c].active

\* App renders the graph view: neither "if (isLoading)" nor "if (error)"
\* returns its full-screen state
GraphView(st) == ~st.isLoading /\ st.error = NoError

\* C20: after the rollback of a failed create, update or delete the client
\* still presents the graph view, not the full-screen error state with
\* Retry, so the user can keep operating without running initializeStore
\* again.
C20_FailureNonFatal ==
    [][ \A k \in calls :
          (RejectedStep(k) /\ GraphView(store[k.c])) => GraphView(store'[k.c])
      ]_vars

\* C21: the socket makes at most reconnectionAttempts attempts to connect
\* again; when they are exhausted isConnected stays false, and a manual
\* retry, which runs initializeStore again, opens the socket again: the
\* step that ends the retry leaves a socket that is connecting.
C21_RetryReopens ==
    /\ [](\A c \in Clients : attempts[c] <= reconnectionAttempts)
    /\ [](\A c \in Clients : socket[c] = "failed" => ~store[c].isConnected)
    /\ [][ \A c \in Clients :
             (HandlerStep("initializeStoreFetched", c) /\ socket[c] = "failed") =>
                 socket'[c] = "connecting" ]_vars

\* the ids of a list are pairwise distinct
DistinctIds(people) ==
    \A i, j \in DOMAIN people : people[i].id = people[j].id => i = j

\* two entities have streams that are equal after lower-casing and trimming
SameStream(a, b) ==
    /\ a.stream # NoStream /\ b.stream # NoStream
    /\ Trim(ToLowerCase(Chars(a.stream))) = Trim(ToLowerCase(Chars(b.stream)))

\* the links of the list between the ids a and b, in either direction
Between(links, a, b) ==
    { k \in DOMAIN links : { links[k].sourceId, links[k].targetId } = { a, b } }

\* C22: for a people list with pairwise distinct ids generateStreamLinks
\* returns exactly one link of type stream for each unordered pair of
\* entities whose streams are equal after lower-casing and trimming, and no
\* other link.
C22_OnePerPair ==
    (canvas.rendered /\ DistinctIds(canvas.people)) =>
        LET people == canvas.people
            want == { p \in (DOMAIN people) \X (DOMAIN people) :
                        p[1] < p[2] /\ SameStream(people[p[1]], people[p[2]]) }
        IN /\ ~canvas.threw
           /\ Len(canvas.streamLinks) = Cardinality(want)
           /\ \A k \in DOMAIN canvas.streamLinks : canvas.streamLinks[k].type = "stream"
           /\ \A p \in want :
                 Cardinality(Between(canvas.streamLinks,
                                     people[p[1]].id, people[p[2]].id)) = 1

\* C23: for any people list generateInterestLinks returns exactly one link
\* of type interest for each unordered pair of distinct entities and each
\* interest that both of them hold, with that interest as description, and
\* no other link, also when an interest occurs twice in a list.
C23_OnePerPairAndInterest ==
    (canvas.rendered /\ ~canvas.threw) =>
        LET people == canvas.people
            links == canvas.interestLinks
            want == { w \in (DOMAIN people) \X (DOMAIN people) \X { "nlp", "vision" } :
                        /\ w[1] < w[2]
                        /\ Includes(people[w[1]].interests, w[3])
                        /\ Includes(people[w[2]].interests, w[3]) }
        IN /\ Len(links) = Cardinality(want)
           /\ \A k \in DOMAIN links : links[k].type = "interest"
           /\ \A w \in want :
                 Cardinality({ k \in Between(links, people[w[1]].id, people[w[2]].id) :
                                 links[k].description = w[3] }) = 1

\* the ids of the links of a list
LinkIds(links) == { links[k].id : k \in DOMAIN links }
\* the orderings of a people list
Orderings(people) ==
    { [i \in DOMAIN people |-> people[f[i]]] : f \in Permutations(DOMAIN people) }

\* C24: the id of a derived link depends only on the sorted pair of its
\* endpoints (and the interest): every ordering of the same entities gives
\* the same set of link ids and the same count, a second call gives the same
\* output, and the details panel gives the link between two entities the id
\* the canvas gives it.
C24_IdsIndependentOfOrder ==
    (canvas.rendered /\ ~canvas.threw /\ DistinctIds(canvas.people)) =>
        /\ generateStreamLinks(canvas.people) = canvas.streamLinks
        /\ generateInterestLinks(canvas.people) = canvas.interestLinks
        /\ \A q \in Orderings(canvas.people) :
              /\ LinkIds(generateStreamLinks(q)) = LinkIds(canvas.streamLinks)
              /\ Len(generateStreamLinks(q)) = Len(canvas.streamLinks)
              /\ LinkIds(generateInterestLinks(q)) = LinkIds(canvas.interestLinks)
              /\ Len(generateInterestLinks(q)) = Len(canvas.interestLinks)
        /\ \A k \in DOMAIN canvas.panelStreamLinks :
              LET l == canvas.panelStreamLinks[k]
              IN \A j \in Between(canvas.streamLinks, l.sourceId, l.targetId) :
                     canvas.streamLinks[j].id = l.id
        /\ \A k \in DOMAIN canvas.panelInterestLinks :
              LET l == canvas.panelInterestLinks[k]
              IN \A j \in Between(canvas.interestLinks, l.sourceId, l.targetId) :
                     canvas.interestLinks[j].description = l.description =>
                         canvas.interestLinks[j].id = l.id

\* C25: for every people list a client's store reaches, no link returned by
\* generateStreamLinks or generateInterestLinks has its sourceId equal to its
\* targetId.
C25_NoSelfLink ==
    \A c \in Clients :
        LET streamLinks == generateStreamLinks(store[c].people)
            interestLinks == generateInterestLinks(store[c].people)
        IN /\ \A k \in DOMAIN streamLinks :
                 streamLinks[k].sourceId # streamLinks[k].targetId
           /\ \A k \in DOMAIN interestLinks :
                 interestLinks[k].sourceId # interestLinks[k].targetId

\* C26: the description of a stream link is the stream label its two
\* endpoints share, with the first letter in upper case and the rest as it
\* was entered ("ML" gives "ML").
C26_DescriptionIsLabel ==
    (canvas.rendered /\ ~canvas.threw /\ DistinctIds(canvas.people)) =>
        \A k \in DOMAIN canvas.streamLinks :
            LET l == canvas.streamLinks[k]
            IN l.description \in
                   { Capitalize(Chars(Find(canvas.people, l.sourceId).stream)),
                     Capitalize(Chars(Find(canvas.people, l.targetId).stream)) }

OpenStep(c) == last'.c = c /\ last'.act \in { "handleKeyDown", "handleDelete" }
\* the store's deletePerson or deleteLink was called by client c
InvokedStep(c) == last'.c = c /\ last'.act \in { "deletePerson", "deleteLink" }
\* the three fields of the dialog are those of the closed dialog
GateEmpty(g) ==
    /\ ~g.isConfirmDialogOpen
    /\ g.confirmDialogMessage = ""
    /\ g.confirmDialogAction = NoAction

\* C28: openConfirmDialog leaves the dialog open with the action it was
\* given, whatever the dialog held; confirming calls that action, once (one
\* call of the store's delete, for the id of the action), and leaves the
\* dialog closed, without action, with the empty message; cancelling leaves
\* the same dialog and calls nothing; so an action that was replaced is not
\* called.
C28_ConfirmInvokesLatest ==
    [][ \A c \in Clients :
          /\ OpenStep(c) =>
                /\ gate'[c].isConfirmDialogOpen
                /\ gate'[c].confirmDialogAction = DeleteOfSelected(store[c])
                /\ gate'[c].confirmDialogMessage = MessageOfSelected(store[c])
          /\ InvokedStep(c) =>
                /\ gate[c].isConfirmDialogOpen
                /\ last'.act = gate[c].confirmDialogAction.op
                /\ last'.id = gate[c].confirmDialogAction.id
                /\ clock' = clock + 1
                /\ GateEmpty(gate'[c])
          /\ HandlerStep("closeConfirmDialog", c) =>
                /\ GateEmpty(gate'[c])
                /\ store' = store /\ pendingOperations' = pendingOperations
                /\ clock' = clock /\ calls' = Touch(c, calls)
          /\ (gate[c].isConfirmDialogOpen /\ ~gate'[c].isConfirmDialogOpen) =>
                InvokedStep(c) \/ HandlerStep("closeConfirmDialog", c) ]_vars

\* client 1 opened the dialog for Alice, then for the link, and confirmed:
\* the link is deleted, Alice is still there and the dialog is empty
C28_Witness ==
    /\ last.act = "deleteLink" /\ last.c = 1 /\ last.id = 3
    /\ gate[1].replaced = [op |-> "deletePerson", id |-> 1]
    /\ GateEmpty(gate[1])
    /\ Has(store[1].people, 1) /\ ~Has(store[1].links, 3)

\* C29: every call of deletePerson or deleteLink that a key or a button
\* starts is the action of the open dialog, run by its confirmation: no
\* delete changes the local state, and no DELETE request is in flight, that
\* a confirmation did not start.
C29_DeleteOnlyConfirmed ==
    /\ [][ \A c \in Clients :
             InvokedStep(c) =>
                 /\ UiReady(c)
                 /\ gate[c].isConfirmDialogOpen
                 /\ gate[c].confirmDialogAction = [op |-> last'.act, id |-> last'.id]
                 /\ ~gate'[c].isConfirmDialogOpen ]_vars
    /\ [][ \A c \in Clients :
             (\/ \E k \in calls' \ calls : k.c = c /\ k.op = "delete" /\ IssuedStep(k)
              \/ \E id \in Ids(store[c].people) \ Ids(store'[c].people) :
                    last'.c = c /\ last'.act \notin { "onEvent", "initializeStoreFetched",
                                                     "rejected" }) =>
                 InvokedStep(c) /\ gate[c].isConfirmDialogOpen ]_vars

\* a client confirmed the dialog that a trigger had opened for a person:
\* the DELETE is in flight and the person is gone from the local state
C29_Witness ==
    \E c \in Clients : \E k \in calls :
        /\ last.act = "deletePerson" /\ last.c = c
        /\ k.c = c /\ k.kind = "person" /\ k.op = "delete" /\ k.id = last.id
        /\ ~Has(store[c].people, last.id)
        /\ GateEmpty(gate[c])

\* C30: the calls of setViewport that follow one another within
\* AUTOSAVE_DELAY make one burst; a burst gives exactly one write to the
\* local storage, AUTOSAVE_DELAY after its last call, with the viewport of
\* its last call.
C30_OneWritePerBurst ==
    /\ [](\A c \in Clients :
            LET a == autosave[c]
            IN /\ a.burstWrites <= 1
               /\ (a.lastCall # NoTime /\ a.now < a.lastCall + AUTOSAVE_DELAY) =>
                      a.burstWrites = 0
               /\ (a.lastCall # NoTime /\ a.now > a.lastCall + AUTOSAVE_DELAY) =>
                      a.burstWrites = 1 /\ a.storage = a.viewport)
    /\ [][ \A c \in Clients :
             HandlerStep("saveToStorage", c) =>
                 /\ autosave[c].now = autosave[c].lastCall + AUTOSAVE_DELAY
                 /\ autosave'[c].storage = autosave[c].viewport
                 /\ autosave'[c].burstWrites = 1 ]_vars

\* a burst of three calls has ended, and its one write holds a viewport
\* that differs from the first of the burst
C30_Witness ==
    \E c \in Clients :
        /\ last.act = "saveToStorage" /\ last.c = c
        /\ autosave[c].burstCalls = 3
        /\ autosave[c].burstWrites = 1
        /\ autosave[c].storage = autosave[c].viewport
        /\ autosave[c].timers = { }

\* the REST calls in flight, without the bookkeeping of the model
Requests(cs) == { [n |-> k.n, c |-> k.c, kind |-> k.kind, op |-> k.op, id |-> k.id] : k \in cs }

\* C31: a step of setViewport or of its debounced write on client c leaves
\* people, links, selection and the pending set of every client as they were,
\* produces no REST request and no broadcast event, stores nothing on the
\* server, and leaves the viewport and the local storage of every other client
\* as they were.
C31_ViewportIsLocal ==
    [][\A c \in Clients :
        (HandlerStep("setViewport", c) \/ HandlerStep("saveToStorage", c)) =>
            /\ store' = store
            /\ pendingOperations' = pendingOperations
            /\ Requests(calls') = Requests(calls)
            /\ queue' = queue
            /\ dbPeople' = dbPeople /\ dbLinks' = dbLinks
            /\ \A d \in Clients \ { c } :
                /\ autosave'[d].viewport = autosave[d].viewport
                /\ autosave'[d].storage = autosave[d].storage]_vars

\* client 1 has moved to viewport 2 and written it to its storage while
\* client 2 has moved to viewport 1 and not written yet
C31_Witness ==
    /\ autosave[1].viewport = 2 /\ autosave[1].storage = 2
    /\ autosave[2].viewport = 1 /\ autosave[2].storage = 0
    /\ autosave[2].moves = 1

\* the server answered the request k in this step with a 4xx or 5xx
Refused(k) == k.st = "sent" /\ \E j \in calls' : j.n = k.n /\ j.st = "fail"

\* the server answered the request k in this step with a 2xx
Committed(k) == k.st = "sent" /\ \A j \in calls' : j.n # k.n

\* the ids of the rows a step created, changed or removed
ChangedRows ==
    LET before == Range(dbPeople) \cup Range(dbLinks)
        after == Range(dbPeople') \cup Range(dbLinks')
    IN { r.id : r \in (before \ after) \cup (after \ before) }

\* C32: the server broadcasts an event if and only if the mutation was
\* committed: a request that is rejected or fails changes no stored row and
\* broadcasts no event, and a committed request adds one event per row it
\* created, changed or removed to the queue of every connected client, the
\* sender included.
C32_BroadcastIffCommitted ==
    [][\A k \in calls :
        /\ Refused(k) =>
              queue' = queue /\ dbPeople' = dbPeople /\ dbLinks' = dbLinks
        /\ Committed(k) =>
              /\ ChangedRows # { }
              /\ \A c \in Clients :
                    Len(queue'[c]) = Len(queue[c]) +
                        (IF socket[c] = "connected" THEN Cardinality(ChangedRows) ELSE 0)]_vars

\* C33: in every reachable state of the server the sourceId and the targetId
\* of every stored link are ids of stored people, whatever requests arrive
\* and however the statements of the routes interleave.
C33_EndpointsStored ==
    \A i \in DOMAIN dbLinks :
        Has(dbPeople, dbLinks[i].sourceId) /\ Has(dbPeople, dbLinks[i].targetId)

\* an INSERT or UPDATE of a link was refused by the database after the route
\* had found nothing wrong: the endpoint was deleted in between
C33_Witness ==
    /\ last.act \in { "PostLinkInsert", "PutLinkUpdate" }
    /\ \E k \in calls : k.st = "fail" /\ k.kind = "link" /\ k.id = last.id
    /\ Len(dbPeople) < Len(InitialPeople)

\* the events a step of the server added to the queue of client c
Emitted(c) == SubSeq(queue'[c], Len(queue[c]) + 1, Len(queue'[c]))

\* the marker of the event is pending at client c and no event that is still
\* on its way to c takes it first
MeetsMarker(c, ev) ==
    /\ EventMarker(ev) \in pendingOperations[c]
    /\ \A i \in DOMAIN queue[c] : EventMarker(queue[c][i]) # EventMarker(ev)

\* C34: immediately after deletePerson(id) on a present person the pending set
\* holds the delete marker of the person and of every link removed with it,
\* and after deleteLink(id) the delete marker of the link; and every
\* link:deleted and person:deleted event the server emits for a delete of
\* client c meets a marker at c, already when no request fails.
C34_DeleteEventsSuppressed ==
    [][\A c \in Clients :
        /\ \A k \in calls' :
              (IssuedStep(k) /\ k.c = c /\ k.op = "delete") =>
                  CallMarkers(k.kind, "delete", k.id, k.existingLinks)
                      \subseteq pendingOperations'[c]
        /\ (faults' = 0 /\ last'.c = c
                /\ last'.act \in { "DeletePersonRoute", "DeleteLinkRoute" }) =>
              \A i \in DOMAIN Emitted(c) : MeetsMarker(c, Emitted(c)[i])]_vars

\* client c discards the event at the head of its queue in this step
DiscardedStep(c) == last'.c = c /\ last'.act = "onEvent:echo"

\* C35: an event is discarded only by the client whose operation produced it.
\* Stated for person:deleted, the event whose producer the state determines:
\* ids are never used again, so person:deleted{id} is emitted once, by the
\* DELETE that was committed, and a client whose own DELETE of that id is
\* still unanswered or was refused has not produced it.
C35_OnlyOwnEchoDiscarded ==
    [][\A c \in Clients :
        (DiscardedStep(c) /\ Head(queue[c]).kind = "person"
                          /\ Head(queue[c]).op = "deleted") =>
            ~\E k \in calls :
                /\ k.c = c /\ k.kind = "person" /\ k.op = "delete"
                /\ k.id = Head(queue[c]).payload.id]_vars

\* the record the server holds for the id of call k is an update of the
\* record k sent: it comes from a later update that the client of k issued
\* on top of k's optimistic record, and that the server committed
SecondCommitted(k) ==
    /\ Has(dbPeople, k.id)
    /\ \E updates \in PersonUpdates, now \in (k.n + 1)..clock :
          Find(dbPeople, k.id) = Merge(k.body[1], updates, now)

\* C36: when two updates of a person by one client overlap, the first fails
\* and the second is committed, the client's record equals the server's once
\* both calls have resolved and the events are delivered. Stated for the
\* order in which the failure is the last to arrive: the step is the catch
\* block of the first update, after which the client has no call in flight
\* and no event to receive.
C36_OverlappingUpdatesConverge ==
    [][\A c \in Clients : \A k \in calls :
        ( /\ last'.act = "rejected" /\ last'.c = c
          /\ k.c = c /\ k.st = "fail" /\ k.kind = "person" /\ k.op = "update"
          /\ \A j \in calls' : j.n # k.n /\ j.c # c
          /\ queue'[c] = << >>
          /\ SecondCommitted(k) ) =>
            /\ Has(store'[c].people, k.id)
            /\ Find(store'[c].people, k.id) = Find(dbPeople, k.id)]_vars

\* client c has no store action awaiting its REST call and no bootstrap
\* awaiting its fetch
NothingInFlight(c) ==
    /\ \A k \in calls : k.c # c
    /\ ~fetch[c].active
    /\ ~store[c].isLoading

\* C37: whenever a client has no local operation in flight, the sourceId and
\* the targetId of every link in its local links are ids of its local people;
\* stated for the states in which the client has no event left to receive
\* either, so that what is found is there to stay.
C37_LocalEndpointsPresent ==
    \A c \in Clients :
        (NothingInFlight(c) /\ queue[c] = << >>) =>
            \A i \in DOMAIN store[c].links :
                /\ Has(store[c].people, store[c].links[i].sourceId)
                /\ Has(store[c].people, store[c].links[i].targetId)

\* C38: in every reachable state a non-null selectedPersonId is the id of a
\* person in local people and a non-null selectedLinkId is the id of a link
\* in local links (the ids selected here are ids of stored links, which no
\* derived link has).
C38_SelectionPresent ==
    \A c \in Clients :
        /\ store[c].selectedPersonId # NoId =>
              Has(store[c].people, store[c].selectedPersonId)
        /\ store[c].selectedLinkId # NoId =>
              Has(store[c].links, store[c].selectedLinkId)

\* C39: once cleanupStore has run on a client and no bootstrap of that client
\* is in flight, the client has no socket and no event is applied to its
\* state.
C39_NoSubscriptionAfterCleanup ==
    /\ [](\A c \in Clients :
            (~mounted[c] /\ ~fetch[c].active) => socket[c] = "null")
    /\ [][\A c \in Clients :
            (~mounted[c] /\ ~fetch[c].active) =>
                ~(last'.c = c /\ last'.act \in { "onEvent", "onEvent:echo" })]_vars

\* how many links of the list s join the persons p and q, in either
\* direction, with a description in the set ds
Joining(s, p, q, ds) ==
    Cardinality({ i \in DOMAIN s :
        /\ { s[i].sourceId, s[i].targetId } = { p, q }
        /\ s[i].description \in ds })

Descriptions(s) == { s[i].description : i \in DOMAIN s }

\* C40: for a people list with distinct ids and a person P of it, the links
\* the details panel derives for P join P to the same persons as the links of
\* the canvas that involve P: for every other person the same number of
\* stream links and, for every interest, the same number of interest links;
\* and the panel derives no link that does not start at P.
C40_PanelAgreesWithCanvas ==
    (canvas.rendered /\ canvas.personId # NoId /\ DistinctIds(canvas.people)) =>
        LET p == canvas.personId
            interests == Descriptions(canvas.interestLinks)
                             \cup Descriptions(canvas.panelInterestLinks)
            streams == Descriptions(canvas.streamLinks)
                           \cup Descriptions(canvas.panelStreamLinks)
        IN /\ \A q \in Ids(canvas.people) \ { p } :
                /\ Joining(canvas.panelStreamLinks, p, q, streams)
                      = Joining(canvas.streamLinks, p, q, streams)
                /\ \A d \in interests :
                      Joining(canvas.panelInterestLinks, p, q, { d })
                          = Joining(canvas.interestLinks, p, q, { d })
           /\ \A i \in DOMAIN canvas.panelStreamLinks :
                  canvas.panelStreamLinks[i].sourceId = p
           /\ \A i \in DOMAIN canvas.panelInterestLinks :
                  canvas.panelInterestLinks[i].sourceId = p

====
